---- MODULE Spec2Model ----
(***************************************************************************)
(* Model of the structured query engine of site-server: the tokenizer,    *)
(* the recursive-descent parser and the evaluator of src/search.rs, and   *)
(* the flexible time-string parser of src/timestring.rs.                  *)
(*                                                                         *)
(* Strings are sequences of one-character strings, so that the character  *)
(* level work of the code (tokenizing, trimming, lowercasing, pattern     *)
(* matching) is done by the model and not assumed.  Positions in token    *)
(* sequences are 1-based here and 0-based in the Rust source.             *)
(***************************************************************************)
EXTENDS Integers, Sequences, FiniteSets, TLC

\* what the build decides where the language and std leave it open: the
\* policy of RwLock and the overflow checks of the profile
VARIABLE build

\* The functions that many others use are reached through Call: F(x) is
\* Call("F", <<x>>), which is F_impl(x), the translation of F's code.  Call
\* is declared RECURSIVE so that TLC's coverage statistics hold one cost
\* model of each F_impl, not one for every path of calls that leads to it.
RECURSIVE Call(_, _)

(***************************************************************************)
(* Characters and strings                                                  *)
(***************************************************************************)

UpperChars ==
  <<"A","B","C","D","E","F","G","H","I","J","K","L","M",
    "N","O","P","Q","R","S","T","U","V","W","X","Y","Z">>

LowerChars ==
  <<"a","b","c","d","e","f","g","h","i","j","k","l","m",
    "n","o","p","q","r","s","t","u","v","w","x","y","z">>

DigitChars == <<"0","1","2","3","4","5","6","7","8","9">>

\* char::is_whitespace, on the characters of the model's alphabet
is_whitespace(ch) == ch \in {" ", "\t", "\n"}

IsDigit(ch) == \E i \in 1..10 : DigitChars[i] = ch

DigitVal(ch) == (CHOOSE i \in 1..10 : DigitChars[i] = ch) - 1

\* char lowercasing: an upper-case letter maps to its lower-case letter,
\* every other character to itself
ToLowerChar(ch) ==
  IF \E i \in 1..26 : UpperChars[i] = ch
    THEN LowerChars[CHOOSE i \in 1..26 : UpperChars[i] = ch]
    ELSE ch

\* str::to_lowercase
to_lowercase(s) == [i \in 1..Len(s) |-> ToLowerChar(s[i])]

RECURSIVE TrimStart(_)
TrimStart(s) ==
  IF s # <<>> /\ is_whitespace(Head(s)) THEN TrimStart(Tail(s)) ELSE s

RECURSIVE TrimEnd(_)
TrimEnd(s) ==
  IF s # <<>> /\ is_whitespace(s[Len(s)])
    THEN TrimEnd(SubSeq(s, 1, Len(s) - 1))
    ELSE s

\* str::trim
trim(s) == TrimEnd(TrimStart(s))

\* str::contains: needle occurs as a contiguous substring of hay
contains(hay, needle) ==
  \E i \in 1..(Len(hay) - Len(needle) + 1) :
    SubSeq(hay, i, i + Len(needle) - 1) = needle

StartsWith(s, p) == Len(s) >= Len(p) /\ SubSeq(s, 1, Len(p)) = p

Drop(s, n) == SubSeq(s, n + 1, Len(s))

RECURSIVE Concat(_)
Concat(ss) == IF ss = <<>> THEN <<>> ELSE Head(ss) \o Concat(Tail(ss))

(***************************************************************************)
(* Tokens and the tokenizer (search.rs, tokenize)                          *)
(***************************************************************************)

OpenParen == [k |-> "OpenParen", s |-> <<>>]
CloseParen == [k |-> "CloseParen", s |-> <<>>]
StringTok(str) == [k |-> "String", s |-> str]

\* the bare-word flush shared by '(' , ')' , whitespace and end of input
FlushBare(st) ==
  IF trim(st.cur) # <<>>
    THEN [st EXCEPT !.tokens = Append(@, StringTok(trim(st.cur))),
                    !.cur = <<>>]
    ELSE st

\* one iteration of the loop over the input's characters
TokenizeChar(st, ch) ==
  IF st.escape
    THEN [st EXCEPT !.cur = Append(@, ch), !.escape = FALSE]
  ELSE IF ch = "\\" /\ st.in_string
    THEN [st EXCEPT !.escape = TRUE]
  ELSE IF ch = "\""
    THEN IF st.in_string
           THEN [st EXCEPT !.tokens = Append(@, StringTok(st.cur)),
                           !.cur = <<>>, !.in_string = FALSE]
           ELSE [st EXCEPT !.in_string = TRUE]
  ELSE IF ch = "(" /\ ~st.in_string
    THEN [FlushBare(st) EXCEPT !.tokens = Append(@, OpenParen)]
  ELSE IF ch = ")" /\ ~st.in_string
    THEN [FlushBare(st) EXCEPT !.tokens = Append(@, CloseParen)]
  ELSE IF st.in_string
    THEN [st EXCEPT !.cur = Append(@, ch)]
  ELSE IF is_whitespace(ch)
    THEN FlushBare(st)
  ELSE [st EXCEPT !.cur = Append(@, ch)]

\* the loop over the characters lo .. hi of the input, entered in state
\* st.  The range is halved and the state is read on entry (a state
\* always has its escape flag), so that the state is computed before the
\* range is entered and the evaluation nests as deep as the logarithm of
\* the input's length, not as its length.
RECURSIVE TokenizeRange(_, _, _, _)
TokenizeRange(input, lo, hi, st) ==
  IF st.escape \notin BOOLEAN \/ lo > hi THEN st
  ELSE IF lo = hi THEN TokenizeChar(st, input[lo])
  ELSE TokenizeRange(input, (lo + hi) \div 2 + 1, hi,
                     TokenizeRange(input, lo, (lo + hi) \div 2, st))

\* a wrong end of input: an open quoted string is closed by the end
tokenize_closing_at_end(input) ==
  LET st0 == [tokens |-> <<>>, cur |-> <<>>, in_string |-> FALSE,
              escape |-> FALSE]
      st == TokenizeRange(input, 1, Len(input), st0)
  IN [ok |-> TRUE, err |-> "", tokens |-> FlushBare(st).tokens]

tokenize(input) == Call("tokenize", <<input>>)
tokenize_impl(input) ==
  LET st0 == [tokens |-> <<>>, cur |-> <<>>, in_string |-> FALSE,
              escape |-> FALSE]
      st == TokenizeRange(input, 1, Len(input), st0)
  IN IF st.in_string
       THEN [ok |-> FALSE, err |-> "UnexpectedEnd", tokens |-> <<>>]
       ELSE [ok |-> TRUE, err |-> "", tokens |-> FlushBare(st).tokens]

(***************************************************************************)
(* Instants, durations and the civil calendar (chrono, chrono_tz)          *)
(*                                                                         *)
(* An i64 count of milliseconds since the Unix epoch is the pair           *)
(* [d |-> days, ms |-> milliseconds of the day], ms in 0 .. MsPerDay-1,    *)
(* standing for d * MsPerDay + ms: the machine integers of the checker     *)
(* are 32 bits wide and an epoch-millisecond value is not.                 *)
(***************************************************************************)

MsPerHour == 60 * 60 * 1000
MsPerDay == 24 * MsPerHour

TV(d, ms) == [d |-> d, ms |-> ms]

\* normalise a pair whose ms part may lie outside 0 .. MsPerDay-1
TVNorm(d, ms) == [d |-> d + (ms \div MsPerDay), ms |-> ms % MsPerDay]

TVLe(a, b) == a.d < b.d \/ (a.d = b.d /\ a.ms <= b.ms)
TVLt(a, b) == a.d < b.d \/ (a.d = b.d /\ a.ms < b.ms)
TVGe(a, b) == TVLe(b, a)

TVAdd(a, b) == TVNorm(a.d + b.d, a.ms + b.ms)
TVSub(a, b) == TVNorm(a.d - b.d, a.ms - b.ms)

\* Duration::milliseconds(1), ::seconds, ::minutes, ::hours, ::days, ::weeks
DurMillis(n) == TVNorm(0, n)
DurSeconds(n) == TVNorm(n \div (24 * 60 * 60), (n % (24 * 60 * 60)) * 1000)
DurMinutes(n) == TVNorm(n \div (24 * 60), (n % (24 * 60)) * 60 * 1000)
DurHours(n) == TVNorm(n \div 24, (n % 24) * MsPerHour)
DurDays(n) == TV(n, 0)
DurWeeks(n) == TV(7 * n, 0)

IsLeap(y) == (y % 4 = 0 /\ y % 100 # 0) \/ y % 400 = 0

DaysInMonth(y, m) ==
  IF m = 2 THEN (IF IsLeap(y) THEN 29 ELSE 28)
  ELSE IF m \in {4, 6, 9, 11} THEN 30 ELSE 31

\* days since 1970-01-01 of the proleptic Gregorian date y-m-d
DaysFromCivil(y, m, d) == Call("DaysFromCivil", <<y, m, d>>)
DaysFromCivil_impl(y, m, d) ==
  LET yy == IF m <= 2 THEN y - 1 ELSE y
      era == yy \div 400
      yoe == yy - era * 400
      mp == IF m > 2 THEN m - 3 ELSE m + 9
      doy == (153 * mp + 2) \div 5 + d - 1
      doe == yoe * 365 + yoe \div 4 - yoe \div 100 + doy
  IN era * 146097 + doe - 719468

\* the proleptic Gregorian date of a day number
CivilFromDays(z0) == Call("CivilFromDays", <<z0>>)
CivilFromDays_impl(z0) ==
  LET z == z0 + 719468
      era == z \div 146097
      doe == z - era * 146097
      yoe == (doe - doe \div 1460 + doe \div 36524 - doe \div 146096) \div 365
      doy == doe - (365 * yoe + yoe \div 4 - yoe \div 100)
      mp == (5 * doy + 2) \div 153
      d == doy - (153 * mp + 2) \div 5 + 1
      m == IF mp < 10 THEN mp + 3 ELSE mp - 9
      y == yoe + era * 400 + (IF m <= 2 THEN 1 ELSE 0)
  IN [y |-> y, m |-> m, d |-> d]

\* Weekday::num_days_from_sunday of a day number (1970-01-01: Thursday)
DaysFromSunday(dayno) == (dayno + 4) % 7

\* the first Sunday of month m of year y, as a day number
FirstSunday(y, m) ==
  LET first == DaysFromCivil(y, m, 1)
  IN first + ((7 - DaysFromSunday(first)) % 7)

\* chrono's NaiveDate covers the years -262143 ..= 262142
MinDay == DaysFromCivil(0 - 262143, 1, 1)
MaxDay == DaysFromCivil(262142, 12, 31)
InChronoRange(t) == MinDay <= t.d /\ t.d <= MaxDay

(***************************************************************************)
(* SEARCH_TIMEZONE = America/New_York, under the rule in force since 2007: *)
(* daylight time runs from 02:00 EST (07:00 UTC) on the second Sunday of   *)
(* March to 02:00 EDT (06:00 UTC) on the first Sunday of November.         *)
(***************************************************************************)

DstStart(y) == TV(FirstSunday(y, 3) + 7, 7 * MsPerHour)
DstEnd(y) == TV(FirstSunday(y, 11), 6 * MsPerHour)

\* whether daylight time is in force at the instant t
IsDst(t) ==
  LET y == CivilFromDays(t.d).y
  IN TVLe(DstStart(y), t) /\ TVLt(t, DstEnd(y))

\* the UTC offset at instant t, in milliseconds east of Greenwich
UtcOffset(t) == Call("UtcOffset", <<t>>)
UtcOffset_impl(t) == IF IsDst(t) THEN 0 - 4 * MsPerHour ELSE 0 - 5 * MsPerHour

\* DateTime<Tz>: the local calendar fields of the instant t
\* (year(), month(), day(), weekday(), and the time of day)
ToLocal(t) == Call("ToLocal", <<t>>)
ToLocal_impl(t) ==
  LET l == TVNorm(t.d, t.ms + UtcOffset(t))
      c == CivilFromDays(l.d)
  IN [y |-> c.y, m |-> c.m, d |-> c.d, ms |-> l.ms, dayno |-> l.d]

ValidDate(y, m, d) ==
  /\ 0 - 262143 <= y /\ y <= 262142
  /\ 1 <= m /\ m <= 12
  /\ 1 <= d /\ d <= DaysInMonth(y, m)

\* TimeZone::from_local_datetime: the instants whose local fields are
\* y-m-d and ms of the day; none in a spring-forward gap, two in a
\* fall-back fold, one otherwise
LocalCandidates(y, m, d, ms) ==
  LET dayno == DaysFromCivil(y, m, d)
      est == TVNorm(dayno, ms + 5 * MsPerHour)
      edt == TVNorm(dayno, ms + 4 * MsPerHour)
  IN (IF IsDst(est) THEN {} ELSE {est}) \cup (IF IsDst(edt) THEN {edt} ELSE {})

\* LocalResult::single(): Some(instant) or None
\* [some |-> BOOLEAN, t |-> instant]
NoneTime == [some |-> FALSE, t |-> TV(0, 0)]
SomeTime(t) == [some |-> TRUE, t |-> t]

FromLocalSingle(y, m, d, ms) == Call("FromLocalSingle", <<y, m, d, ms>>)
FromLocalSingle_impl(y, m, d, ms) ==
  IF ~ValidDate(y, m, d) THEN NoneTime
  ELSE LET c == LocalCandidates(y, m, d, ms)
       IN IF Cardinality(c) = 1 THEN SomeTime(CHOOSE t \in c : TRUE)
          ELSE NoneTime

\* tz.with_ymd_and_hms(y, m, d, 0, 0, 0).single()
with_ymd_midnight(y, m, d) == Call("with_ymd_midnight", <<y, m, d>>)
with_ymd_midnight_impl(y, m, d) == FromLocalSingle(y, m, d, 0)

\* DateTime::with_year / with_month: replace one local field, keep the
\* others, and map back through the zone; None when the date does not
\* exist or the local time is not a single instant
with_year(t, y) == Call("with_year", <<t, y>>)
with_year_impl(t, y) ==
  LET l == ToLocal(t) IN FromLocalSingle(y, l.m, l.d, l.ms)

with_month(t, m) == Call("with_month", <<t, m>>)
with_month_impl(t, m) ==
  LET l == ToLocal(t) IN FromLocalSingle(l.y, m, l.d, l.ms)

(***************************************************************************)
(* The time-string parser (timestring.rs)                                  *)
(***************************************************************************)

\* TimeSpec::Moment(ts) and TimeSpec::Range { start, end }
Moment(ts) == [kind |-> "Moment", start |-> ts, end |-> ts]
Range(start, end) == [kind |-> "Range", start |-> start, end |-> end]

\* a wrong bound for After: the start of the range
for_after_start(spec) == spec.start

for_after(spec) == spec.end
for_before(spec) == spec.start
is_range(spec) == spec.kind = "Range"
spec_contains(spec, ts) ==
  IF spec.kind = "Moment" THEN ts = spec.start
  ELSE TVGe(ts, spec.start) /\ TVLe(ts, spec.end)

\* the Option<TimeSpec> of one strategy; "panic" is an abort inside it
NoSpec == [st |-> "none", spec |-> Moment(TV(0, 0))]
SomeSpec(spec) == [st |-> "some", spec |-> spec]
PanicSpec == [st |-> "panic", spec |-> Moment(TV(0, 0))]

\* --- pattern helpers ---------------------------------------------------

\* the length of the longest prefix of s made of digits (\d+ , \d{1,2})
RECURSIVE SpanDigits(_)
SpanDigits(s) ==
  IF s # <<>> /\ IsDigit(Head(s)) THEN 1 + SpanDigits(Tail(s)) ELSE 0

\* the length of the longest prefix of s made of whitespace (\s+)
RECURSIVE SpanWs(_)
SpanWs(s) ==
  IF s # <<>> /\ is_whitespace(Head(s)) THEN 1 + SpanWs(Tail(s)) ELSE 0

AllDigits(s) == s # <<>> /\ \A i \in 1..Len(s) : IsDigit(s[i])

\* the value of a digit string that fits the checker's integers
RECURSIVE DigitsValue(_)
DigitsValue(s) ==
  IF s = <<>> THEN 0
  ELSE 10 * DigitsValue(SubSeq(s, 1, Len(s) - 1)) + DigitVal(s[Len(s)])

\* a digit string read as i64 epoch milliseconds, kept as days and
\* milliseconds of the day
PushDigit(h, ch) ==
  TV(h.d * 10 + (h.ms * 10 + DigitVal(ch)) \div MsPerDay,
     (h.ms * 10 + DigitVal(ch)) % MsPerDay)

\* the digits lo .. hi of s pushed onto the value h, which is read on
\* entry (its day count is never negative); the range is halved, so that
\* the evaluation nests as deep as the logarithm of the length
RECURSIVE DigitsToTVRange(_, _, _, _)
DigitsToTVRange(s, lo, hi, h) ==
  IF h.d < 0 \/ lo > hi THEN h
  ELSE IF lo = hi THEN PushDigit(h, s[lo])
  ELSE DigitsToTVRange(s, (lo + hi) \div 2 + 1, hi,
                       DigitsToTVRange(s, lo, (lo + hi) \div 2, h))

DigitsToTV(s) == DigitsToTVRange(s, 1, Len(s), TV(0, 0))

RECURSIVE StripZeros(_)
StripZeros(s) ==
  IF Len(s) > 1 /\ Head(s) = "0" THEN StripZeros(Tail(s)) ELSE s

\* s <= t for two digit strings of the same length
RECURSIVE DigitsLe(_, _)
DigitsLe(s, t) ==
  IF s = <<>> THEN TRUE
  ELSE IF DigitVal(Head(s)) < DigitVal(Head(t)) THEN TRUE
  ELSE IF DigitVal(Head(s)) > DigitVal(Head(t)) THEN FALSE
  ELSE DigitsLe(Tail(s), Tail(t))

I64MaxDigits == <<"9","2","2","3","3","7","2","0","3","6","8","5","4","7","7","5","8","0","7">>

\* whether str::parse::<i64> accepts an all-digit string: its value is
\* at most i64::MAX
FitsI64(digits) ==
  LET z == StripZeros(digits)
  IN Len(z) < 19 \/ (Len(z) = 19 /\ DigitsLe(z, I64MaxDigits))

\* --- strategy 1: DateTime::parse_from_rfc3339 ---------------------------

TwoDigits(s, i) == IsDigit(s[i]) /\ IsDigit(s[i + 1])
TwoVal(s, i) == 10 * DigitVal(s[i]) + DigitVal(s[i + 1])

\* the fraction of a second after position 19: its length in characters
\* (0 when there is none) and its value in milliseconds
FracLen(s) ==
  IF Len(s) > 20 /\ s[20] = "." THEN 1 + SpanDigits(Drop(s, 20)) ELSE 0

FracMillis(s) ==
  LET ds == SubSeq(s, 21, 19 + FracLen(s))
      d3 == SubSeq(ds \o <<"0","0","0">>, 1, 3)
  IN DigitsValue(d3)

\* YYYY-MM-DDThh:mm:ss[.fff](Z|+hh:mm|-hh:mm), calendar-validated
parse_from_rfc3339(s) == Call("parse_from_rfc3339", <<s>>)
parse_from_rfc3339_impl(s) ==
  LET shape == /\ Len(s) >= 20
               /\ AllDigits(SubSeq(s, 1, 4))
               /\ s[5] = "-" /\ TwoDigits(s, 6)
               /\ s[8] = "-" /\ TwoDigits(s, 9)
               /\ s[11] \in {"T", "t"}
               /\ TwoDigits(s, 12) /\ s[14] = ":"
               /\ TwoDigits(s, 15) /\ s[17] = ":"
               /\ TwoDigits(s, 18)
               /\ FracLen(s) # 1
      z == Drop(s, 19 + FracLen(s))
      zulu == z \in {<<"Z">>, <<"z">>}
      numeric == /\ Len(z) = 6 /\ z[1] \in {"+", "-"}
                 /\ TwoDigits(z, 2) /\ z[4] = ":" /\ TwoDigits(z, 5)
                 /\ TwoVal(z, 2) <= 23 /\ TwoVal(z, 5) <= 59
      y == DigitsValue(SubSeq(s, 1, 4))
      mo == TwoVal(s, 6)
      d == TwoVal(s, 9)
      hh == TwoVal(s, 12)
      mi == TwoVal(s, 15)
      ss == TwoVal(s, 18)
      off == IF zulu THEN 0
             ELSE (IF z[1] = "-" THEN 0 - 1 ELSE 1)
                    * (TwoVal(z, 2) * 60 + TwoVal(z, 5)) * 60 * 1000
  IN IF shape /\ (zulu \/ numeric) /\ ValidDate(y, mo, d)
        /\ hh <= 23 /\ mi <= 59 /\ ss <= 59
       THEN SomeTime(TVNorm(DaysFromCivil(y, mo, d),
                            ((hh * 60 + mi) * 60 + ss) * 1000
                              + FracMillis(s) - off))
       ELSE NoneTime

\* --- strategy 2: relative durations -------------------------------------

UnitWords ==
  { [name |-> "second", w |-> <<"s","e","c","o","n","d">>],
    [name |-> "minute", w |-> <<"m","i","n","u","t","e">>],
    [name |-> "hour", w |-> <<"h","o","u","r">>],
    [name |-> "day", w |-> <<"d","a","y">>],
    [name |-> "week", w |-> <<"w","e","e","k">>],
    [name |-> "month", w |-> <<"m","o","n","t","h">>],
    [name |-> "year", w |-> <<"y","e","a","r">>] }

AgoWord == <<"a","g","o">>

\* the tail "s?\s+ago$" of both patterns, after the unit word
MatchesAgoTail(r, plural) ==
  LET r1 == IF plural /\ r # <<>> /\ Head(r) = "s" THEN Tail(r) ELSE r
  IN SpanWs(r1) >= 1 /\ Drop(r1, SpanWs(r1)) = AgoWord

\* ^(\d+)\s+(second|minute|hour|day|week|month|year)s?\s+ago$
MatchRelativeN(s) ==
  LET nd == SpanDigits(s)
      r1 == Drop(s, nd)
      r2 == Drop(r1, SpanWs(r1))
      us == {u \in UnitWords : StartsWith(r2, u.w)
                               /\ MatchesAgoTail(Drop(r2, Len(u.w)), TRUE)}
  IN IF nd >= 1 /\ SpanWs(r1) >= 1 /\ us # {}
       THEN [m |-> TRUE, digits |-> SubSeq(s, 1, nd),
             unit |-> (CHOOSE u \in us : TRUE).name]
       ELSE [m |-> FALSE, digits |-> <<>>, unit |-> ""]

\* ^a\s+(second|minute|hour|day|week|month|year)\s+ago$
MatchRelativeA(s) ==
  LET r1 == Drop(s, 1)
      r2 == Drop(r1, SpanWs(r1))
      us == {u \in UnitWords : StartsWith(r2, u.w)
                               /\ MatchesAgoTail(Drop(r2, Len(u.w)), FALSE)}
  IN IF s # <<>> /\ Head(s) = "a" /\ SpanWs(r1) >= 1 /\ us # {}
       THEN [m |-> TRUE, unit |-> (CHOOSE u \in us : TRUE).name]
       ELSE [m |-> FALSE, unit |-> ""]

\* now - Duration: DateTime's Sub aborts when the result leaves the
\* range chrono can represent
SubDuration(now, dur) ==
  LET Checked(t) == IF InChronoRange(t) THEN SomeSpec(Moment(t)) ELSE PanicSpec
  IN Checked(TVSub(now, dur))

\* the while loop that borrows from the year while month <= 0
BorrowYears(month) == IF month <= 0 THEN (12 - month) \div 12 ELSE 0

\* the "month" arm: now.with_year(year)?.with_month(month as u32)?
MonthsAgo(now, n) ==
  LET Result(wm) == IF wm.some THEN SomeSpec(Moment(wm.t)) ELSE NoSpec
      WithMonth(wy, month) ==
        Result(IF wy.some THEN with_month(wy.t, month) ELSE NoneTime)
      Borrowed(year, raw, borrow) ==
        WithMonth(with_year(now, year - borrow), raw + 12 * borrow)
      Back(l) == Borrowed(l.y, l.m - n, BorrowYears(l.m - n))
  IN Back(ToLocal(now))

\* the "year" arm: now.with_year(now.year() - n as i32)?
YearsAgo(now, n) ==
  LET Result(wy) == IF wy.some THEN SomeSpec(Moment(wy.t)) ELSE NoSpec
  IN Result(with_year(now, ToLocal(now).y - n))

\* the match on the unit, shared by the "N unit ago" and "a unit ago" arms
RelativeTarget(now, unit, n) ==
  CASE unit = "second" -> SubDuration(now, DurSeconds(n))
    [] unit = "minute" -> SubDuration(now, DurMinutes(n))
    [] unit = "hour" -> SubDuration(now, DurHours(n))
    [] unit = "day" -> SubDuration(now, DurDays(n))
    [] unit = "week" -> SubDuration(now, DurWeeks(n))
    [] unit = "month" -> MonthsAgo(now, n)
    [] unit = "year" -> YearsAgo(now, n)

\* i32::MAX
I32Max == 2147483647

\* the low 32 bits of a digit string's value, in two 16-bit halves
PushLimb(h, ch) ==
  [hi |-> (h.hi * 10 + (h.lo * 10 + DigitVal(ch)) \div 65536) % 65536,
   lo |-> (h.lo * 10 + DigitVal(ch)) % 65536]

RECURSIVE Low32(_, _)
Low32(s, h) == IF s = <<>> THEN h ELSE Low32(Tail(s), PushLimb(h, Head(s)))

\* n as i32, n the i64 a digit string parses to: the low 32 bits, read as
\* a signed integer
AsI32(digits) ==
  LET Signed32(h) ==
        IF h.hi >= 32768 THEN (h.hi - 65536) * 65536 + h.lo
        ELSE h.hi * 65536 + h.lo
  IN Signed32(Low32(digits, [hi |-> 0, lo |-> 0]))

\* a - b on i32 overflows (b may be negative: it is a wrapped n)
SubOverflows(a, b) == b < a - I32Max

\* what an i32 subtraction that overflows leads to: with overflow checks
\* the thread panics; without them the difference wraps to a value near
\* i32::MIN, the year ends far before chrono's first year, and with_year
\* is None
OverflowedSub ==
  IF build.overflowChecks THEN PanicSpec ELSE NoSpec

\* more months back than chrono has years for: with_year is None
FarMonths == 12 * 400000

\* the "month" arm with n as i32
MonthsAgoI32(now, n32) ==
  LET Arm(m) ==
        IF SubOverflows(m, n32) THEN OverflowedSub
        ELSE IF m - n32 < 0 - FarMonths THEN NoSpec
        ELSE MonthsAgo(now, n32)
  IN Arm(ToLocal(now).m)

\* the "year" arm with n as i32
YearsAgoI32(now, n32) ==
  IF SubOverflows(ToLocal(now).y, n32) THEN OverflowedSub
  ELSE YearsAgo(now, n32)

\* a span of days and milliseconds, k times over
TVScale(a, k) == TVNorm(a.d * k, a.ms * k)

\* the match on the unit of "N unit ago", N given by its digits without
\* leading zeros.  Duration::seconds(n) .. ::weeks(n) abort when the
\* duration is out of bounds, and the subtraction aborts when the result
\* leaves chrono's range: a count with more digits than chrono's range
\* has seconds (minutes, ..) aborts in the one or in the other.
RelativeTargetN(now, unit, z) ==
  CASE unit = "second" ->
         IF Len(z) > 13 THEN PanicSpec
         ELSE SubDuration(now, DigitsToTV(z \o <<"0","0","0">>))
    [] unit = "minute" ->
         IF Len(z) > 12 THEN PanicSpec
         ELSE SubDuration(now,
                TVScale(DigitsToTV(z \o <<"0","0","0","0">>), 6))
    [] unit = "hour" ->
         IF Len(z) > 10 THEN PanicSpec
         ELSE SubDuration(now,
                TVScale(TVScale(DigitsToTV(z \o <<"0","0","0","0","0">>), 6),
                        6))
    [] unit = "day" ->
         IF Len(z) > 9 THEN PanicSpec
         ELSE SubDuration(now, DurDays(DigitsValue(z)))
    [] unit = "week" ->
         IF Len(z) > 8 THEN PanicSpec
         ELSE SubDuration(now, DurWeeks(DigitsValue(z)))
    [] unit = "month" -> MonthsAgoI32(now, AsI32(z))
    [] unit = "year" -> YearsAgoI32(now, AsI32(z))

try_parse_relative_duration(input, now) == Call("try_parse_relative_duration", <<input, now>>)
try_parse_relative_duration_impl(input, now) ==
  LET Second(ma) == IF ma.m THEN RelativeTarget(now, ma.unit, 1) ELSE NoSpec
      First(mn) ==
        IF mn.m
          THEN (IF FitsI64(mn.digits)
                  THEN RelativeTargetN(now, mn.unit, StripZeros(mn.digits))
                  ELSE NoSpec)
          ELSE Second(MatchRelativeA(input))
  IN First(MatchRelativeN(input))

\* --- strategy 3: named periods -------------------------------------------

P_last_month == <<"l","a","s","t"," ","m","o","n","t","h">>
P_this_month == <<"t","h","i","s"," ","m","o","n","t","h">>
P_last_year == <<"l","a","s","t"," ","y","e","a","r">>
P_this_year == <<"t","h","i","s"," ","y","e","a","r">>
P_today == <<"t","o","d","a","y">>
P_yesterday == <<"y","e","s","t","e","r","d","a","y">>
P_last_week == <<"l","a","s","t"," ","w","e","e","k">>
P_this_week == <<"t","h","i","s"," ","w","e","e","k">>

OneMs == DurMillis(1)

\* tz.with_ymd_and_hms(t.year(), t.month(), t.day(), 0, 0, 0).single()
MidnightOf(t) == Call("MidnightOf", <<t>>)
MidnightOf_impl(t) ==
  LET l == ToLocal(t) IN with_ymd_midnight(l.y, l.m, l.d)

\* Some(Range { start, end }) from two Options: the ? on either .single()
RangeBetween(start, endExcl) ==
  IF start.some /\ endExcl.some
    THEN SomeSpec(Range(start.t, TVSub(endExcl.t, OneMs)))
    ELSE NoSpec

\* a wrong day range: it ends a millisecond before it starts
DayRangeFrom_ending_early(start) ==
  IF start.some
    THEN SomeSpec(Range(start.t, TVSub(start.t, OneMs)))
    ELSE NoSpec

\* start .. start + Duration::days(1) - Duration::milliseconds(1)
DayRangeFrom(start) ==
  IF start.some
    THEN SomeSpec(Range(start.t,
                        TVSub(TVAdd(start.t, DurDays(1)), OneMs)))
    ELSE NoSpec

\* a month's range: the 1st at midnight to the next month's 1st, less 1 ms
MonthRange(year, month) ==
  RangeBetween(with_ymd_midnight(year, month, 1),
               with_ymd_midnight(IF month = 12 THEN year + 1 ELSE year,
                                 IF month = 12 THEN 1 ELSE month + 1, 1))

YearRange(year) ==
  RangeBetween(with_ymd_midnight(year, 1, 1),
               with_ymd_midnight(year + 1, 1, 1))

LastMonth(now) ==
  LET l == ToLocal(now)
  IN IF l.m - 1 <= 0 THEN MonthRange(l.y - 1, 12)
     ELSE MonthRange(l.y, l.m - 1)

ThisMonth(now) == LET l == ToLocal(now) IN MonthRange(l.y, l.m)

\* a wrong today: in November it is the moment of now, not its day
Today_moment_in_november(now) ==
  IF ToLocal(now).m = 11 THEN SomeSpec(Moment(now))
  ELSE DayRangeFrom(MidnightOf(now))

Today(now) == DayRangeFrom(MidnightOf(now))

Yesterday(now) == DayRangeFrom(MidnightOf(TVSub(now, DurDays(1))))

\* now - Duration::days(now.weekday().num_days_from_sunday())
SundayOf(now) ==
  TVSub(now, DurDays(DaysFromSunday(ToLocal(now).dayno)))

LastWeek(now) ==
  LET this_sunday == SundayOf(now)
      last_sunday == TVSub(this_sunday, DurDays(7))
  IN RangeBetween(MidnightOf(last_sunday), MidnightOf(this_sunday))

ThisWeek(now) ==
  LET sunday == SundayOf(now)
      next_sunday == TVAdd(sunday, DurDays(7))
  IN RangeBetween(MidnightOf(sunday), MidnightOf(next_sunday))

try_parse_named_period(input, now) == Call("try_parse_named_period", <<input, now>>)
try_parse_named_period_impl(input, now) ==
  CASE input = P_last_month -> LastMonth(now)
    [] input = P_this_month -> ThisMonth(now)
    [] input = P_last_year -> YearRange(ToLocal(now).y - 1)
    [] input = P_this_year -> YearRange(ToLocal(now).y)
    [] input = P_today -> Today(now)
    [] input = P_yesterday -> Yesterday(now)
    [] input = P_last_week -> LastWeek(now)
    [] input = P_this_week -> ThisWeek(now)
    [] OTHER -> NoSpec

\* --- strategy 4: month names --------------------------------------------

MonthNames ==
  { [w |-> <<"j","a","n","u","a","r","y">>, num |-> 1],
    [w |-> <<"j","a","n">>, num |-> 1],
    [w |-> <<"f","e","b","r","u","a","r","y">>, num |-> 2],
    [w |-> <<"f","e","b">>, num |-> 2],
    [w |-> <<"m","a","r","c","h">>, num |-> 3],
    [w |-> <<"m","a","r">>, num |-> 3],
    [w |-> <<"a","p","r","i","l">>, num |-> 4],
    [w |-> <<"a","p","r">>, num |-> 4],
    [w |-> <<"m","a","y">>, num |-> 5],
    [w |-> <<"j","u","n","e">>, num |-> 6],
    [w |-> <<"j","u","n">>, num |-> 6],
    [w |-> <<"j","u","l","y">>, num |-> 7],
    [w |-> <<"j","u","l">>, num |-> 7],
    [w |-> <<"a","u","g","u","s","t">>, num |-> 8],
    [w |-> <<"a","u","g">>, num |-> 8],
    [w |-> <<"s","e","p","t","e","m","b","e","r">>, num |-> 9],
    [w |-> <<"s","e","p">>, num |-> 9],
    [w |-> <<"s","e","p","t">>, num |-> 9],
    [w |-> <<"o","c","t","o","b","e","r">>, num |-> 10],
    [w |-> <<"o","c","t">>, num |-> 10],
    [w |-> <<"n","o","v","e","m","b","e","r">>, num |-> 11],
    [w |-> <<"n","o","v">>, num |-> 11],
    [w |-> <<"d","e","c","e","m","b","e","r">>, num |-> 12],
    [w |-> <<"d","e","c">>, num |-> 12] }

\* month_name_to_num: 0 stands for None
month_name_to_num(name) ==
  IF \E mn \in MonthNames : mn.w = name
    THEN (CHOOSE mn \in MonthNames : mn.w = name).num
    ELSE 0

\* a wrong month strategy: the month is always taken in now's year
try_parse_month_name_this_year(input, now) ==
  LET month_num == month_name_to_num(input)
  IN IF month_num = 0 THEN NoSpec
     ELSE MonthRange(ToLocal(now).y, month_num)

try_parse_month_name(input, now) == Call("try_parse_month_name", <<input, now>>)
try_parse_month_name_impl(input, now) ==
  LET month_num == month_name_to_num(input)
      l == ToLocal(now)
      year == IF month_num > l.m THEN l.y - 1 ELSE l.y
  IN IF month_num = 0 THEN NoSpec ELSE MonthRange(year, month_num)

\* --- strategy 5: year only ----------------------------------------------

\* ^(\d{4})$
try_parse_year_only(input) == Call("try_parse_year_only", <<input>>)
try_parse_year_only_impl(input) ==
  IF Len(input) = 4 /\ AllDigits(input)
    THEN YearRange(DigitsValue(input))
    ELSE NoSpec

\* --- strategy 6: Unix milliseconds --------------------------------------

\* a wrong epoch strategy: a leading sign is accepted and then ignored
try_parse_unix_millis_unsigned(input) ==
  LET signed == input # <<>> /\ Head(input) \in {"+", "-"}
      digits == IF signed THEN Tail(input) ELSE input
  IN IF Len(input) > 4 /\ AllDigits(digits) /\ FitsI64(digits)
       THEN SomeSpec(Moment(DigitsToTV(digits)))
       ELSE NoSpec

\* input.len() > 4 and input.parse::<i64>() succeeds: an optional sign,
\* then digits, the value within i64
try_parse_unix_millis(input) == Call("try_parse_unix_millis", <<input>>)
try_parse_unix_millis_impl(input) ==
  LET signed == input # <<>> /\ Head(input) \in {"+", "-"}
      digits == IF signed THEN Tail(input) ELSE input
      v == DigitsToTV(digits)
  IN IF Len(input) > 4 /\ AllDigits(digits) /\ FitsI64(digits)
       THEN SomeSpec(Moment(IF signed /\ Head(input) = "-"
                              THEN TVSub(TV(0, 0), v) ELSE v))
       ELSE NoSpec

\* --- strategy 7: American dates -----------------------------------------

\* a wrong American strategy: the day is read before the month
try_parse_american_date_day_first(input) ==
  LET n1 == SpanDigits(input)
      r1 == Drop(input, n1)
      r2 == Drop(r1, 1)
      n2 == SpanDigits(r2)
      r3 == Drop(r2, n2)
      r4 == Drop(r3, 1)
      shape == /\ n1 \in {1, 2} /\ r1 # <<>> /\ Head(r1) = "/"
               /\ n2 \in {1, 2} /\ r3 # <<>> /\ Head(r3) = "/"
               /\ Len(r4) = 4 /\ AllDigits(r4)
      day == DigitsValue(SubSeq(input, 1, n1))
      month == DigitsValue(SubSeq(r2, 1, n2))
      year == DigitsValue(r4)
  IN IF ~shape THEN NoSpec
     ELSE IF month < 1 \/ month > 12 \/ day < 1 \/ day > 31 THEN NoSpec
     ELSE DayRangeFrom(with_ymd_midnight(year, month, day))

\* ^(\d{1,2})/(\d{1,2})/(\d{4})$
try_parse_american_date(input) == Call("try_parse_american_date", <<input>>)
try_parse_american_date_impl(input) ==
  LET n1 == SpanDigits(input)
      r1 == Drop(input, n1)
      r2 == Drop(r1, 1)
      n2 == SpanDigits(r2)
      r3 == Drop(r2, n2)
      r4 == Drop(r3, 1)
      shape == /\ n1 \in {1, 2} /\ r1 # <<>> /\ Head(r1) = "/"
               /\ n2 \in {1, 2} /\ r3 # <<>> /\ Head(r3) = "/"
               /\ Len(r4) = 4 /\ AllDigits(r4)
      month == DigitsValue(SubSeq(input, 1, n1))
      day == DigitsValue(SubSeq(r2, 1, n2))
      year == DigitsValue(r4)
  IN IF ~shape THEN NoSpec
     ELSE IF month < 1 \/ month > 12 \/ day < 1 \/ day > 31 THEN NoSpec
     ELSE DayRangeFrom(with_ymd_midnight(year, month, day))

\* --- strategy 8: human dates --------------------------------------------

OrdinalSuffixes ==
  { <<"s","t">>, <<"n","d">>, <<"r","d">>, <<"t","h">> }

\* (?i)^(month name)\s+(\d{1,2})(?:st|nd|rd|th)?,?\s+(\d{4})$
try_parse_human_date(input) == Call("try_parse_human_date", <<input>>)
try_parse_human_date_impl(input) ==
  LET SkipWs(r) == Drop(r, SpanWs(r))
      SkipOrdinal(r) ==
        IF Len(r) >= 2 /\ SubSeq(r, 1, 2) \in OrdinalSuffixes
          THEN Drop(r, 2) ELSE r
      SkipComma(r) == IF r # <<>> /\ Head(r) = "," THEN Tail(r) ELSE r
      Date(mn, day, year) ==
        IF day < 1 \/ day > 31 THEN NoSpec
        ELSE DayRangeFrom(with_ymd_midnight(year, mn.num, day))
      Year(mn, day_digits, r5, r6) ==
        IF ~(SpanWs(r5) >= 1 /\ Len(r6) = 4 /\ AllDigits(r6)) THEN NoSpec
        ELSE Date(mn, DigitsValue(day_digits), DigitsValue(r6))
      AfterDay(mn, day_digits, r5) == Year(mn, day_digits, r5, SkipWs(r5))
      Day(mn, r2, nd) ==
        IF nd \notin {1, 2} THEN NoSpec
        ELSE AfterDay(mn, SubSeq(r2, 1, nd),
                      SkipComma(SkipOrdinal(Drop(r2, nd))))
      AfterName(mn, r2) == Day(mn, r2, SpanDigits(r2))
      Name(low, mn) == AfterName(mn, SkipWs(Drop(low, Len(mn.w))))
      Names(low, names) ==
        IF names = {} THEN NoSpec ELSE Name(low, CHOOSE x \in names : TRUE)
      Lowered(low) ==
        Names(low, {mn \in MonthNames :
                      /\ StartsWith(low, mn.w)
                      /\ SpanWs(Drop(low, Len(mn.w))) >= 1})
  IN Lowered(to_lowercase(input))

\* --- strategy 9: ISO dates ----------------------------------------------

\* NaiveDate::parse_from_str(input, "%Y-%m-%d"): up to four digits of
\* year, one or two of month and of day, calendar-validated
try_parse_iso_date(input) == Call("try_parse_iso_date", <<input>>)
try_parse_iso_date_impl(input) ==
  LET n1 == SpanDigits(input)
      r1 == Drop(input, n1)
      r2 == Drop(r1, 1)
      n2 == SpanDigits(r2)
      r3 == Drop(r2, n2)
      r4 == Drop(r3, 1)
      shape == /\ n1 \in 1..4 /\ r1 # <<>> /\ Head(r1) = "-"
               /\ n2 \in {1, 2} /\ r3 # <<>> /\ Head(r3) = "-"
               /\ Len(r4) \in {1, 2} /\ AllDigits(r4)
      year == DigitsValue(SubSeq(input, 1, n1))
      month == DigitsValue(SubSeq(r2, 1, n2))
      day == DigitsValue(r4)
  IN IF shape /\ ValidDate(year, month, day)
       THEN DayRangeFrom(with_ymd_midnight(year, month, day))
       ELSE NoSpec

\* --- the strategy chain -------------------------------------------------

\* if let Some(spec) = r { return Ok(spec) } for each strategy in turn: the
\* first result of rs that is not None, and None when there is no such
FirstSome(rs) ==
  LET hits == {i \in 1..Len(rs) : rs[i].st # "none"}
  IN IF hits = {} THEN NoSpec
     ELSE rs[CHOOSE i \in hits : \A j \in hits : i <= j]

\* timestring::parse(input, now, SEARCH_TIMEZONE):
\* [st |-> "ok" | "err" | "panic", spec |-> TimeSpec]
timestring_parse(raw, now) == Call("timestring_parse", <<raw, now>>)
timestring_parse_impl(raw, now) ==
  LET Result(r) ==
        [st |-> IF r.st = "some" THEN "ok"
                ELSE IF r.st = "panic" THEN "panic" ELSE "err",
         spec |-> r.spec]
      Rfc3339(rfc) ==
        IF rfc.some THEN SomeSpec(Moment(rfc.t)) ELSE NoSpec
      Strategies(input, input_lower) ==
        FirstSome(<<Rfc3339(parse_from_rfc3339(input)),
                    try_parse_relative_duration(input_lower, now),
                    try_parse_named_period(input_lower, now),
                    try_parse_month_name(input_lower, now),
                    try_parse_year_only(input),
                    try_parse_unix_millis(input),
                    try_parse_american_date(input),
                    try_parse_human_date(input),
                    try_parse_iso_date(input)>>)
      Trimmed(input) == Result(Strategies(input, to_lowercase(input)))
  IN Trimmed(trim(raw))

(***************************************************************************)
(* The expression parser (search.rs, parse_search_expr and parse_expr)     *)
(***************************************************************************)

\* SearchExpr: [op, s, args]; s is the string payload of a leaf, args the
\* children of And / Or and the one child of Not
And(args) == [op |-> "And", s |-> <<>>, args |-> args]
Or(args) == [op |-> "Or", s |-> <<>>, args |-> args]
Not(e) == [op |-> "Not", s |-> <<>>, args |-> <<e>>]
Leaf(op, str) == [op |-> op, s |-> str, args |-> <<>>]
NoExpr == [op |-> "None", s |-> <<>>, args |-> <<>>]

W_and == <<"a","n","d">>
W_or == <<"o","r">>
W_not == <<"n","o","t">>
W_tag == <<"t","a","g">>
W_type == <<"t","y","p","e">>
W_site == <<"s","i","t","e">>
W_fulltext == <<"f","u","l","l","t","e","x","t">>
W_title == <<"t","i","t","l","e">>
W_meta == <<"m","e","t","a">>
W_desc == <<"d","e","s","c">>
W_url == <<"u","r","l">>
W_after == <<"a","f","t","e","r">>
W_before == <<"b","e","f","o","r","e">>
W_during == <<"d","u","r","i","n","g">>
W_image == <<"i","m","a","g","e">>
W_video == <<"v","i","d","e","o">>
W_text == <<"t","e","x","t">>

\* the leaf function names of the match arm and the variant each builds
LeafNames ==
  { [w |-> W_tag, op |-> "Tag"],
    [w |-> W_type, op |-> "Type"],
    [w |-> W_site, op |-> "Site"],
    [w |-> W_fulltext, op |-> "Fulltext"],
    [w |-> W_title, op |-> "Title"],
    [w |-> W_meta, op |-> "Meta"],
    [w |-> W_desc, op |-> "Desc"],
    [w |-> W_url, op |-> "Url"],
    [w |-> W_after, op |-> "After"],
    [w |-> W_before, op |-> "Before"],
    [w |-> W_during, op |-> "During"] }

IsLeafName(w) == \E ln \in LeafNames : ln.w = w
LeafOp(w) == (CHOOSE ln \in LeafNames : ln.w = w).op

\* Result<(SearchExpr, usize), ParseError>; "panic" is an abort of the
\* call.  msg is the error's message text and arg the string it carries
ParseOk(expr, pos) ==
  [st |-> "ok", expr |-> expr, pos |-> pos, err |-> "", msg |-> "",
   arg |-> <<>>]
ParseErr(err, msg, arg) ==
  [st |-> "err", expr |-> NoExpr, pos |-> 0, err |-> err, msg |-> msg,
   arg |-> arg]
ParsePanic ==
  [st |-> "panic", expr |-> NoExpr, pos |-> 0, err |-> "", msg |-> "",
   arg |-> <<>>]

IsClose(tokens, pos) == pos <= Len(tokens) /\ tokens[pos].k = "CloseParen"

\* tokens.get(pos): the kind of the token at pos, "End" past the last one
Kind(tokens, pos) == IF pos > Len(tokens) THEN "End" ELSE tokens[pos].k

\* a wrong type arm: the kind is validated in lower case but stored as
\* written
TypeLeaf_as_written(arg, pos) ==
  IF to_lowercase(arg) \notin {W_image, W_video, W_text}
    THEN ParseErr("InvalidArgument",
                  "type must be 'image', 'video', or 'text', got: {}", arg)
    ELSE ParseOk(Leaf("Type", arg), pos)

\* the "type" arm: the argument lowercased, accepted when it is one of
\* the three kinds
TypeLeaf(arg, pos) ==
  LET Match(type_lower) ==
        IF type_lower # W_image /\ type_lower # W_video
             /\ type_lower # W_text
          THEN ParseErr("InvalidArgument",
                 "type must be 'image', 'video', or 'text', got: {}", arg)
          ELSE ParseOk(Leaf("Type", type_lower), pos)
  IN Match(to_lowercase(arg))

\* the "after" and "before" arms: the argument must resolve now
AfterBeforeLeaf(op, arg, pos, now) ==
  LET Match(r) ==
        IF r.st = "panic" THEN ParsePanic
        ELSE IF r.st = "err" THEN ParseErr("InvalidTimestamp", "{}", arg)
        ELSE ParseOk(Leaf(op, arg), pos)
  IN Match(timestring_parse(arg, now))

\* the "during" arm: the argument must resolve now, and to a range
DuringLeaf(arg, pos, now) ==
  LET Match(r) ==
        IF r.st = "panic" THEN ParsePanic
        ELSE IF r.st = "ok" /\ is_range(r.spec)
          THEN ParseOk(Leaf("During", arg), pos)
        ELSE IF r.st = "ok"
          THEN ParseErr("InvalidArgument",
                 "during requires a time range, not a specific moment: {}",
                 arg)
        ELSE ParseErr("InvalidTimestamp", "{}", arg)
  IN Match(timestring_parse(arg, now))

\* the inner match that builds the leaf from its validated argument
BuildLeaf(op, arg, pos, now) ==
  CASE op = "Type" -> TypeLeaf(arg, pos)
    [] op \in {"After", "Before"} -> AfterBeforeLeaf(op, arg, pos, now)
    [] op = "During" -> DuringLeaf(arg, pos, now)
    [] OTHER -> ParseOk(Leaf(op, arg), pos)

\* a wrong leaf arm: the token after the argument is not looked at
ParseLeaf_no_close_check(tokens, pos, function_name, now) ==
  CASE Kind(tokens, pos) = "End" -> ParseErr("UnexpectedEnd", "", <<>>)
    [] Kind(tokens, pos) = "OpenParen" ->
         ParseErr("InvalidArgument", "{} requires a string argument",
                  function_name)
    [] Kind(tokens, pos) = "CloseParen" ->
         ParseErr("InvalidArgument", "{} requires an argument",
                  function_name)
    [] Kind(tokens, pos) = "String" ->
         BuildLeaf(LeafOp(to_lowercase(function_name)), tokens[pos].s,
                   pos + 2, now)

\* the leaf arm: exactly one string argument, then ')'; pos is the
\* position after the function name
ParseLeaf(tokens, pos, function_name, now) ==
  CASE Kind(tokens, pos) = "End" -> ParseErr("UnexpectedEnd", "", <<>>)
    [] Kind(tokens, pos) = "OpenParen" ->
         ParseErr("InvalidArgument", "{} requires a string argument",
                  function_name)
    [] Kind(tokens, pos) = "CloseParen" ->
         ParseErr("InvalidArgument", "{} requires an argument",
                  function_name)
    [] Kind(tokens, pos) = "String" /\ ~IsClose(tokens, pos + 1) ->
         ParseErr("InvalidArgument", "{} requires exactly one argument",
                  function_name)
    [] Kind(tokens, pos) = "String" /\ IsClose(tokens, pos + 1) ->
         BuildLeaf(LeafOp(to_lowercase(function_name)), tokens[pos].s,
                   pos + 2, now)

\* a wrong and / or arm: the and arm builds an Or, as the or arm does
AndOrResult_or_for_and(op, args, pos) ==
  IF args = <<>>
    THEN ParseErr("InvalidArgument",
                  IF op = "And" THEN "and requires at least one argument"
                  ELSE "or requires at least one argument", <<>>)
    ELSE ParseOk([op |-> "Or", s |-> <<>>, args |-> args], pos)

\* what the and / or arm returns once its loop has ended with args at pos
AndOrResult(op, args, pos) ==
  IF args = <<>>
    THEN ParseErr("InvalidArgument",
                  IF op = "And" THEN "and requires at least one argument"
                  ELSE "or requires at least one argument", <<>>)
    ELSE ParseOk([op |-> op, s |-> <<>>, args |-> args], pos)

\* a wrong not arm: the token after the operand is not looked at
NotResult_unchecked(tokens, expr, new_pos) == ParseOk(Not(expr), new_pos + 1)

\* what the not arm returns once its operand has parsed, ending at new_pos
NotResult(tokens, expr, new_pos) ==
  IF ~IsClose(tokens, new_pos)
    THEN ParseErr("InvalidArgument", "not requires exactly one argument",
                  <<>>)
    ELSE ParseOk(Not(expr), new_pos + 1)

\* whether the and / or loop goes round again at pos: while pos < len
LoopContinues(tokens, pos) == pos <= Len(tokens)

RECURSIVE parse_expr(_, _, _)
RECURSIVE ParseArgs(_, _, _, _, _)

\* the while loop of the and / or arms
ParseArgs(op, tokens, pos, args, now) ==
  LET Propagate(r) ==
        IF r.st # "ok" THEN r
        ELSE ParseArgs(op, tokens, r.pos, Append(args, r.expr), now)
  IN CASE ~LoopContinues(tokens, pos) -> AndOrResult(op, args, pos)
       [] LoopContinues(tokens, pos) /\ tokens[pos].k = "CloseParen" ->
            AndOrResult(op, args, pos + 1)
       [] LoopContinues(tokens, pos) /\ tokens[pos].k # "CloseParen" ->
            Propagate(parse_expr(tokens, pos, now))

\* a wrong dispatch: the function name is matched as it was written
ParseForm_as_written(tokens, pos, function_name, now) ==
  LET Propagate(r) ==
        IF r.st # "ok" THEN r ELSE NotResult(tokens, r.expr, r.pos)
      Match(name) ==
        CASE name = W_and -> ParseArgs("And", tokens, pos, <<>>, now)
          [] name = W_or -> ParseArgs("Or", tokens, pos, <<>>, now)
          [] name = W_not -> Propagate(parse_expr(tokens, pos, now))
          [] IsLeafName(name) ->
               ParseLeaf(tokens, pos, function_name, now)
          [] OTHER -> ParseErr("InvalidFunction", "{}", function_name)
  IN Match(function_name)

\* the match on the lowercased function name; pos is the position after it
ParseForm(tokens, pos, function_name, now) ==
  LET Propagate(r) ==
        IF r.st # "ok" THEN r ELSE NotResult(tokens, r.expr, r.pos)
      Match(function_name_lower) ==
        CASE function_name_lower = W_and -> ParseArgs("And", tokens, pos, <<>>, now)
          [] function_name_lower = W_or -> ParseArgs("Or", tokens, pos, <<>>, now)
          [] function_name_lower = W_not -> Propagate(parse_expr(tokens, pos, now))
          [] IsLeafName(function_name_lower) ->
               ParseLeaf(tokens, pos, function_name, now)
          [] OTHER -> ParseErr("InvalidFunction", "{}", function_name)
  IN Match(to_lowercase(function_name))

parse_expr(tokens, start, now) ==
  CASE Kind(tokens, start) = "End" -> ParseErr("UnexpectedEnd", "", <<>>)
    [] Kind(tokens, start) = "OpenParen"
         /\ Kind(tokens, start + 1) = "End" ->
         ParseErr("UnexpectedEnd", "", <<>>)
    [] Kind(tokens, start) = "OpenParen"
         /\ Kind(tokens, start + 1) \in {"OpenParen", "CloseParen"} ->
         ParseErr("UnexpectedToken", "{:?}", tokens[start + 1].s)
    [] Kind(tokens, start) = "OpenParen"
         /\ Kind(tokens, start + 1) = "String" ->
         ParseForm(tokens, start + 2, tokens[start + 1].s, now)
    [] Kind(tokens, start) = "String" ->
         ParseErr("UnexpectedToken",
                  "Unexpected string token at top level: {}", tokens[start].s)
    [] Kind(tokens, start) = "CloseParen" ->
         ParseErr("UnexpectedToken", "Unexpected ')'", <<>>)

\* a wrong check: what follows the first expression is not looked at
TokensRemain_never(tokens, remaining_pos) == FALSE

\* whether tokens remain after the expression that ended at remaining_pos
TokensRemain(tokens, remaining_pos) == remaining_pos <= Len(tokens)

\* parse_search_expr(input), called when the clock reads now
parse_search_expr(input, now) == Call("parse_search_expr", <<input, now>>)
parse_search_expr_impl(input, now) ==
  LET Finish(tokens, r) ==
        IF r.st # "ok" THEN r
        ELSE IF TokensRemain(tokens, r.pos)
          THEN ParseErr("UnexpectedToken",
                        "Unexpected tokens after expression: {:?}", <<>>)
        ELSE r
      Tokenized(t) ==
        IF ~t.ok THEN ParseErr(t.err, "", <<>>)
        ELSE Finish(t.tokens, parse_expr(t.tokens, 1, now))
  IN Tokenized(tokenize(input))

(***************************************************************************)
(* Items (site.rs) and the evaluator (search.rs, evaluate_search_expr)     *)
(***************************************************************************)

\* FileCrawlType: [t |-> "Image" | "Video" | "Intermediate" | "Text",
\*                 key, downloaded, content, nested]
\* nested is the IndexMap of an Intermediate, a sequence of files in
\* insertion order; content is the text of a Text file
File(t, key, downloaded) ==
  [t |-> t, key |-> key, downloaded |-> downloaded, content |-> <<>>,
   nested |-> <<>>]
TextFile(key, content) ==
  [t |-> "Text", key |-> key, downloaded |-> TRUE, content |-> content,
   nested |-> <<>>]
Intermediate(key, downloaded, nested) ==
  [t |-> "Intermediate", key |-> key, downloaded |-> downloaded,
   content |-> <<>>, nested |-> nested]

is_image(f) == f.t = "Image"
is_video(f) == f.t = "Video"
is_text(f) == f.t = "Text"

\* IndexMap::insert: a new key is appended; an existing key keeps its
\* place and takes the new value
IndexMapInsert(map, f) ==
  IF \E i \in 1..Len(map) : map[i].key = f.key
    THEN [i \in 1..Len(map) |-> IF map[i].key = f.key THEN f ELSE map[i]]
    ELSE Append(map, f)

RECURSIVE IndexMapExtend(_, _)
IndexMapExtend(map, fs) ==
  IF fs = <<>> THEN map
  ELSE IndexMapExtend(IndexMapInsert(map, Head(fs)), Tail(fs))

\* what the flat_map closure yields for one entry of item.files
FlatMapEntry(f) ==
  IF f.t = "Intermediate" /\ f.downloaded THEN f.nested ELSE <<f>>

\* CrawlItem::flat_files: flat_map over the files, collected into an
\* IndexMap
RECURSIVE FlatCollect(_, _)
FlatCollect(files, acc) ==
  IF files = <<>> THEN acc
  ELSE FlatCollect(Tail(files), IndexMapExtend(acc, FlatMapEntry(Head(files))))

flat_files(item) == Call("flat_files", <<item>>)
flat_files_impl(item) == FlatCollect(item.files, <<>>)

\* CrawlTag: [detailed |-> BOOLEAN, group, value]
SimpleTag(value) == [detailed |-> FALSE, group |-> <<>>, value |-> value]
DetailedTag(group, value) ==
  [detailed |-> TRUE, group |-> group, value |-> value]

\* CrawlTag::to_string
tag_to_string(t) == t.value

\* reprocessors.rs: the text of a FormattedText, whatever its format
extract_text_from_formatted_text(ft) == ft.value

\* serde_json::Value: [t |-> "String" | "Number" | "Bool" | "Null" |
\*                     "Array" | "Object", s, items]
\* s is a String's text or a Number's rendering; items are the elements
\* of an Array or the [key, val] entries of an Object
JString(str) == [t |-> "String", s |-> str, items |-> <<>>]
JNumber(str) == [t |-> "Number", s |-> str, items |-> <<>>]
JBool == [t |-> "Bool", s |-> <<>>, items |-> <<>>]
JNull == [t |-> "Null", s |-> <<>>, items |-> <<>>]
JArray(vals) ==
  [t |-> "Array", s |-> <<>>,
   items |-> [i \in 1..Len(vals) |-> [key |-> <<>>, val |-> vals[i]]]]
JObject(entries) == [t |-> "Object", s |-> <<>>, items |-> entries]

\* a wrong metadata search: the keys of objects are not searched
RECURSIVE search_json_values_only(_, _)
search_json_values_only(value, search_text) ==
  LET search_lower == to_lowercase(search_text)
  IN CASE value.t = "String" -> contains(to_lowercase(value.s), search_lower)
       [] value.t = "Object" ->
            \E i \in 1..Len(value.items) :
              search_json_values_only(value.items[i].val, search_text)
       [] value.t = "Array" ->
            \E i \in 1..Len(value.items) :
              search_json_values_only(value.items[i].val, search_text)
       [] value.t = "Number" -> contains(to_lowercase(value.s), search_lower)
       [] OTHER -> FALSE

\* reprocessors.rs: search_json_value_recursive
RECURSIVE search_json_value_recursive(_, _)
search_json_value_recursive(value, search_text) ==
  LET search_lower == to_lowercase(search_text)
  IN CASE value.t = "String" -> contains(to_lowercase(value.s), search_lower)
       [] value.t = "Object" ->
            \E i \in 1..Len(value.items) :
              \/ contains(to_lowercase(value.items[i].key), search_lower)
              \/ search_json_value_recursive(value.items[i].val, search_text)
       [] value.t = "Array" ->
            \E i \in 1..Len(value.items) :
              search_json_value_recursive(value.items[i].val, search_text)
       [] value.t = "Number" -> contains(to_lowercase(value.s), search_lower)
       [] OTHER -> FALSE

\* the outcome of one evaluation: a boolean, or an abort (the expect on
\* a time string that no longer resolves)
EvalOk(b) == [st |-> "ok", v |-> b]
EvalPanic == [st |-> "panic", v |-> FALSE]

\* the Type arm: the match on the stored kind, over the flattened files
EvalType(file_type, item) ==
  LET Match(ff) ==
        CASE file_type = W_image -> \E i \in 1..Len(ff) : is_image(ff[i])
          [] file_type = W_video -> \E i \in 1..Len(ff) : is_video(ff[i])
          [] file_type = W_text -> \E i \in 1..Len(ff) : is_text(ff[i])
          [] OTHER -> FALSE
  IN Match(flat_files(item))

\* a wrong Tag test: the value is searched for inside the tag
EvalTag_contains(tag, item) ==
  LET tag_lower == to_lowercase(tag)
  IN \E i \in 1..Len(item.tags) :
       contains(to_lowercase(tag_to_string(item.tags[i])), tag_lower)

EvalTag(tag, item) ==
  LET tag_lower == to_lowercase(tag)
  IN \E i \in 1..Len(item.tags) :
       to_lowercase(tag_to_string(item.tags[i])) = tag_lower

EvalTitle(search_text, item) ==
  contains(to_lowercase(item.title), to_lowercase(search_text))

EvalUrl(search_text, item) ==
  contains(to_lowercase(item.url), to_lowercase(search_text))

EvalDesc(search_text, item) ==
  contains(to_lowercase(extract_text_from_formatted_text(item.description)),
           to_lowercase(search_text))

\* a wrong Fulltext test: the metadata is not searched
EvalFulltext_without_meta(search_text, item) ==
  LET Matches(search_lower, ff) ==
        \/ contains(to_lowercase(item.title), search_lower)
        \/ contains(to_lowercase(item.url), search_lower)
        \/ contains(to_lowercase(
                      extract_text_from_formatted_text(item.description)),
                    search_lower)
        \/ \E i \in 1..Len(ff) :
             /\ ff[i].t = "Text"
             /\ contains(to_lowercase(ff[i].content), search_lower)
  IN Matches(to_lowercase(search_text), flat_files(item))

EvalFulltext(search_text, item) ==
  LET Matches(search_lower, ff) ==
        \/ contains(to_lowercase(item.title), search_lower)
        \/ contains(to_lowercase(item.url), search_lower)
        \/ contains(to_lowercase(
                      extract_text_from_formatted_text(item.description)),
                    search_lower)
        \/ search_json_value_recursive(item.meta, search_text)
        \/ \E i \in 1..Len(ff) :
             /\ ff[i].t = "Text"
             /\ contains(to_lowercase(ff[i].content), search_lower)
  IN Matches(to_lowercase(search_text), flat_files(item))

\* a wrong comparison: the bounds of After and Before are excluded
TemporalTest_exclusive(op, spec, published) ==
  CASE op = "After" -> TVLt(for_after(spec), published)
    [] op = "Before" -> TVLt(published, for_before(spec))
    [] op = "During" -> spec_contains(spec, published)

\* the comparison each temporal arm makes with the resolved spec
TemporalTest(op, spec, published) ==
  CASE op = "After" -> TVGe(published, for_after(spec))
    [] op = "Before" -> TVLe(published, for_before(spec))
    [] op = "During" -> spec_contains(spec, published)

\* the time string a temporal arm resolves when the clock reads now
ResolveAt(time_str, now) == timestring_parse(time_str, now)

\* the After / Before / During arms: re-resolve the stored string at the
\* evaluation's own now; .expect() aborts when it does not resolve
EvalTemporal(op, time_str, item, now) ==
  LET Expect(r) ==
        IF r.st # "ok" THEN EvalPanic
        ELSE EvalOk(TemporalTest(op, r.spec, item.source_published))
  IN Expect(ResolveAt(time_str, now))

RECURSIVE evaluate_search_expr(_, _, _)
RECURSIVE EvalAll(_, _, _)
RECURSIVE EvalAny(_, _, _)

\* exprs.iter().all(..): stops at the first false
EvalAll(exprs, item, now) ==
  IF exprs = <<>> THEN EvalOk(TRUE)
  ELSE LET Step(r) ==
             IF r.st = "panic" THEN r
             ELSE IF ~r.v THEN EvalOk(FALSE)
             ELSE EvalAll(Tail(exprs), item, now)
       IN Step(evaluate_search_expr(Head(exprs), item, now))

\* exprs.iter().any(..): stops at the first true
EvalAny(exprs, item, now) ==
  IF exprs = <<>> THEN EvalOk(FALSE)
  ELSE LET Step(r) ==
             IF r.st = "panic" THEN r
             ELSE IF r.v THEN EvalOk(TRUE)
             ELSE EvalAny(Tail(exprs), item, now)
       IN Step(evaluate_search_expr(Head(exprs), item, now))

\* the Not arm
EvalNot(r) == IF r.st = "panic" THEN r ELSE EvalOk(~r.v)

\* evaluate_search_expr(expr, item), called when the clock reads now
evaluate_search_expr(expr, item, now) ==
  CASE expr.op = "And" -> EvalAll(expr.args, item, now)
    [] expr.op = "Or" -> EvalAny(expr.args, item, now)
    [] expr.op = "Not" ->
         EvalNot(evaluate_search_expr(expr.args[1], item, now))
    [] expr.op = "Tag" -> EvalOk(EvalTag(expr.s, item))
    [] expr.op = "Type" -> EvalOk(EvalType(expr.s, item))
    [] expr.op = "Site" -> EvalOk(item.site_slug = expr.s)
    [] expr.op = "Fulltext" -> EvalOk(EvalFulltext(expr.s, item))
    [] expr.op = "Title" -> EvalOk(EvalTitle(expr.s, item))
    [] expr.op = "Meta" ->
         EvalOk(search_json_value_recursive(item.meta, expr.s))
    [] expr.op = "Desc" -> EvalOk(EvalDesc(expr.s, item))
    [] expr.op = "Url" -> EvalOk(EvalUrl(expr.s, item))
    [] expr.op \in {"After", "Before", "During"} ->
         EvalTemporal(expr.op, expr.s, item, now)

(***************************************************************************)
(* Inputs: clock readings, items and query strings                         *)
(***************************************************************************)

\* a clock reading given by its New York wall-clock fields
At(y, m, d, hh, mi) == Call("At", <<y, m, d, hh, mi>>)
At_impl(y, m, d, hh, mi) == FromLocalSingle(y, m, d, (hh * 60 + mi) * 60 * 1000).t


T_leap == At(2024, 2, 29, 12, 0)    \* a leap day
T_test == At(2025, 1, 15, 12, 0)    \* the now of the unit tests, a Wednesday
T_dst23 == At(2025, 3, 9, 12, 0)    \* the 23-hour day daylight time starts
T_mar10 == At(2025, 3, 10, 0, 30)   \* half an hour into the day after it
T_mar28 == At(2025, 3, 28, 12, 0)
T_mar31 == At(2025, 3, 31, 12, 0)   \* a 31st: February has no such day
T_dst25 == At(2025, 11, 2, 12, 0)   \* the 25-hour day daylight time ends

Nows == Call("Nows", <<>>)
Nows_impl == {T_leap, T_test, T_dst23, T_mar10, T_mar28, T_mar31, T_dst25}

\* time strings
TS_today == <<"t","o","d","a","y">>
TS_Yesterday == <<"Y","e","s","t","e","r","d","a","y">>
TS_this_week == <<"t","h","i","s"," ","w","e","e","k">>
TS_1_month_ago == <<"1"," ","m","o","n","t","h"," ","a","g","o">>
TS_a_year_ago == <<"a"," ","y","e","a","r"," ","a","g","o">>
TS_2_days_ago == <<"2"," ","d","a","y","s"," ","a","g","o">>
TS_huge_days_ago == <<"1","0","0","0","0","0","0","0","0"," ","d","a","y","s"," ","a","g","o">>
TS_january == <<"J","a","n","u","a","r","y">>
TS_2024 == <<"2","0","2","4">>
TS_rfc3339 == <<"2","0","2","4","-","0","1","-","0","1","T","0","0",":","0","0",":","0","0","Z">>
TS_unix == <<"1","7","0","4","0","6","7","2","0","0","0","0","0">>
TS_american == <<"1","/","1","5","/","2","0","2","5">>
TS_human == <<"J","a","n"," ","1","5","t","h",","," ","2","0","2","5">>
TS_iso == <<"2","0","2","5","-","0","1","-","1","5">>
TS_not_a_date == <<"n","o","t"," ","a"," ","d","a","t","e">>
TS_bad_american == <<"1","3","/","4","5","/","2","0","2","5">>

TimeStrings ==
  {TS_today, TS_Yesterday, TS_this_week, TS_1_month_ago, TS_a_year_ago,
   TS_2_days_ago, TS_huge_days_ago, TS_january, TS_2024, TS_rfc3339,
   TS_unix, TS_american, TS_human, TS_iso, TS_not_a_date, TS_bad_american,
   <<>>}

\* small strings
S_x == <<"x">>
S_y == <<"y">>
S_Foo == <<"F","o","o">>
S_foo == <<"f","o","o">>
S_cat == <<"c","a","t">>
S_site == <<"r","-","a","w","w">>

\* items
Item(title, tags, files, published) ==
  [title |-> title, url |-> <<"h","t","t","p",":","/","/","e",".","o","r","g","/","a">>,
   description |-> [format |-> "Plaintext", value |-> <<"A"," ","C","a","t">>],
   meta |-> JObject(<<[key |-> <<"b","y">>, val |-> JString(S_Foo)]>>),
   tags |-> tags, files |-> files, site_slug |-> S_site,
   source_published |-> published]

Items == Call("Items", <<>>)
Items_impl ==
  << Item(S_cat, <<SimpleTag(S_x)>>, <<File("Image", S_x, TRUE)>>,
          At(2025, 11, 2, 23, 30)),
     Item(S_cat, <<SimpleTag(S_Foo), DetailedTag(S_cat, S_y)>>,
          <<File("Video", S_x, TRUE)>>, At(2025, 3, 10, 0, 30)),
     Item(S_x, <<SimpleTag(S_x), SimpleTag(S_y)>>,
          <<Intermediate(S_x, TRUE, <<File("Image", S_y, TRUE)>>),
            TextFile(S_cat, S_foo)>>, At(2025, 3, 9, 12, 0)),
     Item(S_x, <<>>, <<Intermediate(S_x, FALSE, <<File("Image", S_y, TRUE)>>)>>,
          At(2025, 1, 15, 12, 0)),
     Item(S_y, <<SimpleTag(S_y)>>, <<>>, At(2025, 3, 31, 0, 0)),
     Item(S_y, <<SimpleTag(S_x)>>, <<File("Video", S_x, FALSE)>>,
          At(2024, 2, 29, 23, 59)),
     Item(S_cat, <<>>, <<File("Image", S_x, FALSE)>>,
          At(2025, 11, 2, 12, 0)),
     Item(S_cat, <<DetailedTag(S_x, S_foo)>>, <<TextFile(S_x, S_cat)>>,
          TVSub(At(2025, 11, 3, 0, 0), OneMs)),
     Item(S_y, <<DetailedTag(S_Foo, S_cat)>>, <<>>,
          TVSub(At(2025, 1, 16, 0, 0), OneMs)) >>

\* --- query strings, written as sequences of lexemes ---------------------

(***************************************************************************)
(* The functions reached through Call                                      *)
(***************************************************************************)

Call(f, a) ==
  CASE Len(a) = 3 /\ f = "DaysFromCivil" -> DaysFromCivil_impl(a[1], a[2], a[3])
    [] Len(a) = 1 /\ f = "CivilFromDays" -> CivilFromDays_impl(a[1])
    [] Len(a) = 1 /\ f = "UtcOffset" -> UtcOffset_impl(a[1])
    [] Len(a) = 1 /\ f = "ToLocal" -> ToLocal_impl(a[1])
    [] Len(a) = 4 /\ f = "FromLocalSingle" -> FromLocalSingle_impl(a[1], a[2], a[3], a[4])
    [] Len(a) = 3 /\ f = "with_ymd_midnight" -> with_ymd_midnight_impl(a[1], a[2], a[3])
    [] Len(a) = 2 /\ f = "with_year" -> with_year_impl(a[1], a[2])
    [] Len(a) = 2 /\ f = "with_month" -> with_month_impl(a[1], a[2])
    [] Len(a) = 1 /\ f = "MidnightOf" -> MidnightOf_impl(a[1])
    [] Len(a) = 1 /\ f = "parse_from_rfc3339" -> parse_from_rfc3339_impl(a[1])
    [] Len(a) = 2 /\ f = "try_parse_relative_duration" -> try_parse_relative_duration_impl(a[1], a[2])
    [] Len(a) = 2 /\ f = "try_parse_named_period" -> try_parse_named_period_impl(a[1], a[2])
    [] Len(a) = 2 /\ f = "try_parse_month_name" -> try_parse_month_name_impl(a[1], a[2])
    [] Len(a) = 1 /\ f = "try_parse_year_only" -> try_parse_year_only_impl(a[1])
    [] Len(a) = 1 /\ f = "try_parse_unix_millis" -> try_parse_unix_millis_impl(a[1])
    [] Len(a) = 1 /\ f = "try_parse_american_date" -> try_parse_american_date_impl(a[1])
    [] Len(a) = 1 /\ f = "try_parse_human_date" -> try_parse_human_date_impl(a[1])
    [] Len(a) = 1 /\ f = "try_parse_iso_date" -> try_parse_iso_date_impl(a[1])
    [] Len(a) = 2 /\ f = "timestring_parse" -> timestring_parse_impl(a[1], a[2])
    [] Len(a) = 1 /\ f = "tokenize" -> tokenize_impl(a[1])
    [] Len(a) = 2 /\ f = "parse_search_expr" -> parse_search_expr_impl(a[1], a[2])
    [] Len(a) = 1 /\ f = "flat_files" -> flat_files_impl(a[1])
    [] Len(a) = 5 /\ f = "At" -> At_impl(a[1], a[2], a[3], a[4], a[5])
    [] Len(a) = 0 /\ f = "Nows" -> Nows_impl
    [] Len(a) = 0 /\ f = "Items" -> Items_impl

LP == <<"(">>
RP == <<")">>
Quoted(str) == <<"\"">> \o str \o <<"\"">>

\* the lexemes joined by single spaces
RECURSIVE Join(_)
Join(lexemes) ==
  IF lexemes = <<>> THEN <<>>
  ELSE IF Len(lexemes) = 1 THEN Head(lexemes)
  ELSE Head(lexemes) \o <<" ">> \o Join(Tail(lexemes))

\* all sequences over S of length 0 .. n
RECURSIVE SeqsUpTo(_, _)
SeqsUpTo(S, n) ==
  IF n = 0 THEN {<<>>}
  ELSE LET shorter == SeqsUpTo(S, n - 1)
       IN shorter \cup {Append(q, x) : q \in {r \in shorter : Len(r) = n - 1},
                                       x \in S}

LeafForm(name, arg) == <<LP, name, Quoted(arg), RP>>


\* bounds of the generated queries
MaxArgs == 2
MaxLexemes == 5
MaxTail == 3

S_IMAGE == <<"I","M","A","G","E">>
S_Video == <<"V","i","d","e","o">>
S_audio == <<"a","u","d","i","o">>

\* a leaf form for each of the three temporal functions and time strings
TemporalQueries ==
  {LeafForm(f, ts) : f \in {W_after, W_before, W_during}, ts \in TimeStrings}

TypeQueries ==
  {LeafForm(f, a) : f \in {W_type, <<"T","y","p","e">>},
                    a \in {W_image, S_IMAGE, S_Video, W_text, S_audio}}

\* the sub-expressions the and / or / not forms are built from
ChildForms ==
  {LeafForm(W_tag, S_x), LeafForm(W_type, S_IMAGE),
   LeafForm(W_after, TS_1_month_ago),
   <<LP, W_not>> \o LeafForm(W_tag, S_y) \o <<RP>>}

\* (and ..), (or ..), (not ..) over 0 .. MaxArgs sub-expressions, closed
\* or with the closing parenthesis missing
LogicQueries ==
  {<<LP, h>> \o Concat(cs) \o close :
     h \in {W_and, W_or, W_not},
     cs \in SeqsUpTo(ChildForms, MaxArgs),
     close \in {<<RP>>, <<>>}}

Queries ==
  {Join(q) : q \in TemporalQueries \cup TypeQueries \cup LogicQueries}

\* every lexeme sequence of length 0 .. MaxLexemes over a small alphabet
FreeLexemes == {LP, RP, W_and, W_not, W_tag, Quoted(S_x)}
FreeStreams == SeqsUpTo(FreeLexemes, MaxLexemes)

\* an argument each leaf function accepts
GoodArg(name) ==
  IF name = W_type THEN W_image
  ELSE IF name \in {W_after, W_before, W_during} THEN TS_today
  ELSE S_x

\* each leaf function name followed by every sequence of 0 .. MaxTail
\* lexemes among '(' , ')' and a string it accepts
LeafShapes ==
  UNION {{<<LP, ln.w>> \o tail :
            tail \in SeqsUpTo({LP, RP, Quoted(GoodArg(ln.w))}, MaxTail)} :
         ln \in LeafNames}

\* what may follow the opening parenthesis: the fourteen names as
\* written in the source, in upper case, unknown names, the empty
\* string, and a parenthesis
KnownNames == {W_and, W_or, W_not} \cup {ln.w : ln \in LeafNames}
ToUpperChar(ch) ==
  IF \E i \in 1..26 : LowerChars[i] = ch
    THEN UpperChars[CHOOSE i \in 1..26 : LowerChars[i] = ch]
    ELSE ch
Upper(str) == [i \in 1..Len(str) |-> ToUpperChar(str[i])]
HeadLexemes ==
  KnownNames \cup {Upper(w) : w \in KnownNames}
    \cup {<<"f","o","o">>, <<"t","a","g","g">>, <<"a","n">>, <<"N","o","t","t">>, Quoted(<<>>), LP, RP}

HeadShapes ==
  {<<LP, h>> \o tail :
     h \in HeadLexemes,
     tail \in {<<Quoted(S_x), RP>>, LeafForm(W_tag, S_x) \o <<RP>>}}

\* complete forms, and every prefix of each of them
ClosedForms ==
  {LeafForm(W_tag, S_x), LeafForm(W_during, TS_today),
   <<LP, W_not>> \o LeafForm(W_tag, S_x) \o <<RP>>,
   <<LP, W_and>> \o LeafForm(W_tag, S_x) \o <<RP>>,
   <<LP, W_or>> \o LeafForm(W_tag, S_x) \o LeafForm(W_tag, S_y) \o <<RP>>,
   <<LP, W_and, LP, W_not>> \o LeafForm(W_tag, S_x) \o <<RP, RP>>,
   <<LP, W_not, LP, W_or>> \o LeafForm(W_tag, S_x) \o <<RP, RP>>}

PrefixShapes ==
  UNION {{SubSeq(q, 1, n) : n \in 0..Len(q)} : q \in ClosedForms}

\* a complete form and then one more token, at the top level or inside
\* an enclosing form
StrayLexemes == {LP, RP, Quoted(S_x)}
StrayShapes ==
  {q \o <<t>> : q \in ClosedForms, t \in StrayLexemes}
    \cup {<<LP, h>> \o q \o <<t, RP>> :
            h \in {W_and, W_or, W_not}, q \in ClosedForms,
            t \in {RP, Quoted(S_x)}}

SyntaxQueries ==
  {Join(q) : q \in FreeStreams \cup LeafShapes \cup HeadShapes
                    \cup PrefixShapes \cup StrayShapes}

(***************************************************************************)
(* The state machine: a caller parses one query string and, while the      *)
(* clock runs on, evaluates the returned expression against an item        *)
(***************************************************************************)

VARIABLES
  items,     \* the crawled items the search filters
  now,       \* the wall clock (Utc::now())
  phase,     \* "idle", "parsed", "rejected", "aborted" or "evaluated"
  input,     \* the query string given to parse_search_expr
  parsed,    \* what parse_search_expr returned
  parsedAt,  \* the clock when it was called
  evalItem,  \* the index in items of the item evaluated, 0 before
  evalOut,   \* what evaluate_search_expr returned
  evalAt,    \* the clock when it was called
  timeInput, \* the time string given to timestring::parse
  resolved,  \* what timestring::parse returned
  crawledModified,  \* the modification time of crawled.json, in seconds
  work_dir,  \* the RwLock<WorkDir>: its data, read guards, waiting writer
  watcher,   \* the watcher thread inside and around check_for_updates
  handlers   \* each request handler around its read of the WorkDir

vars ==
  <<items, now, phase, input, parsed, parsedAt, evalItem, evalOut, evalAt,
    timeInput, resolved, crawledModified, work_dir, watcher, handlers, build>>

\* the search and the time-string parser
searchVars ==
  <<items, now, phase, input, parsed, parsedAt, evalItem, evalOut, evalAt,
    timeInput, resolved>>

\* the WorkDir, its lock and the threads that take it
watchVars == <<crawledModified, work_dir, watcher, handlers, build>>

\* the request handlers of the model
Handlers == {"h1", "h2"}

\* std::sync::RwLock leaves two things to the platform: whether a waiting
\* writer holds back new readers, and whether write() on a thread that
\* holds the lock panics or blocks
\* and the profile decides whether an integer overflow panics or wraps
Builds ==
  [writerPreferring : BOOLEAN, selfWritePanics : BOOLEAN,
   overflowChecks : BOOLEAN]

\* the builds told apart where only the search runs
SearchBuilds == {b \in Builds : b.writerPreferring /\ ~b.selfWritePanics}

\* ThreadSafeWorkDir::new over the WorkDir loaded when crawled.json had
\* the modification time m; no thread has taken the lock
WorkDirLoadedAt(m) ==
  [data |-> [last_seen_modified |-> m, crawled |-> m],
   readers |-> {}, writerWaiting |-> FALSE]

WatcherAsleep == [pc |-> "sleep", previous |-> 0, replacement |-> 0]

\* no thread is running: the state of the lock while a search is followed
NoThreads ==
  /\ crawledModified = 1
  /\ work_dir = WorkDirLoadedAt(1)
  /\ watcher = WatcherAsleep
  /\ handlers = [h \in Handlers |-> "idle"]
  /\ build \in SearchBuilds

NotEvaluated == [st |-> "none", v |-> FALSE]
NotResolved == [st |-> "none", spec |-> Moment(TV(0, 0))]

InitAt(clocks) ==
  /\ items = Items
  /\ now \in clocks
  /\ phase = "idle"
  /\ input = <<>>
  /\ parsed = ParseErr("", "", <<>>)
  /\ parsedAt = TV(0, 0)
  /\ evalItem = 0
  /\ evalOut = NotEvaluated
  /\ evalAt = TV(0, 0)
  /\ timeInput = <<>>
  /\ resolved = NotResolved
  /\ NoThreads

\* parse_search_expr(q)
Parse(q) ==
  /\ input' = q
  /\ parsed' = parse_search_expr(q, now)
  /\ parsedAt' = now
  /\ phase' = CASE parsed'.st = "ok" -> "parsed"
                [] parsed'.st = "err" -> "rejected"
                [] OTHER -> "aborted"
  /\ UNCHANGED watchVars
  /\ UNCHANGED <<items, now, evalItem, evalOut, evalAt, timeInput, resolved>>

\* the clock advances while the caller holds the expression
Tick ==
  /\ phase = "parsed"
  /\ \E t \in Nows : TVLt(now, t) /\ now' = t
  /\ UNCHANGED watchVars
  /\ UNCHANGED <<items, phase, input, parsed, parsedAt, evalItem, evalOut,
                 evalAt, timeInput, resolved>>

\* evaluate_search_expr(&expr, &items[i])
Evaluate(i) ==
  /\ phase = "parsed"
  /\ evalItem' = i
  /\ evalOut' = evaluate_search_expr(parsed.expr, items[i], now)
  /\ evalAt' = now
  /\ phase' = "evaluated"
  /\ UNCHANGED watchVars
  /\ UNCHANGED <<items, now, input, parsed, parsedAt, timeInput, resolved>>

Init == InitAt(Nows)

ParseQuery == phase = "idle" /\ \E q \in Queries : Parse(q)

EvaluateItem == \E i \in 1..Len(items) : Evaluate(i)

Next == ParseQuery \/ Tick \/ EvaluateItem

Spec == Init /\ [][Next]_vars

\* the same machine on the syntax-oriented queries, the clock held at the
\* unit tests' now
InitSyntax == InitAt({T_test})

ParseSyntaxQuery == phase = "idle" /\ \E q \in SyntaxQueries : Parse(q)

NextSyntax == ParseSyntaxQuery \/ EvaluateItem

SpecSyntax == InitSyntax /\ [][NextSyntax]_vars

(***************************************************************************)
(* What the properties below speak of                                      *)
(***************************************************************************)

\* the token stream of the query given to parse_search_expr
Tokens == tokenize(input).tokens

Called == phase # "idle"
Accepted == phase \in {"parsed", "evaluated"}
Rejected == phase = "rejected"
Evaluated == phase = "evaluated"

\* the position of the ')' that closes the form opened at or before pos,
\* depth forms being open; 0 when the tokens run out first
RECURSIVE MatchClose(_, _, _)
MatchClose(tokens, pos, depth) ==
  IF pos > Len(tokens) THEN 0
  ELSE IF tokens[pos] = OpenParen THEN MatchClose(tokens, pos + 1, depth + 1)
  ELSE IF tokens[pos] = CloseParen
    THEN (IF depth <= 1 THEN (IF depth = 1 THEN pos ELSE 0)
          ELSE MatchClose(tokens, pos + 1, depth - 1))
  ELSE MatchClose(tokens, pos + 1, depth)

\* a single fully parenthesized form: the first token opens a form that
\* the last token closes
ClosedForm(tokens) ==
  /\ tokens # <<>>
  /\ tokens[1] = OpenParen
  /\ MatchClose(tokens, 1, 0) = Len(tokens)

\* the tokens open a form whose function name, lowercased, is w
HeadIs(tokens, w) ==
  /\ Len(tokens) >= 2
  /\ tokens[1] = OpenParen
  /\ tokens[2].k = "String"
  /\ to_lowercase(tokens[2].s) = w

(***************************************************************************)
(* C1                                                                      *)
(***************************************************************************)

\* C1: every evaluation of an accepted query, at the parse time or any
\* later time and on any item, returns a boolean: it never aborts.
C1_EvaluationNeverFails == Evaluated => evalOut.st = "ok"

(***************************************************************************)
(* C2                                                                      *)
(***************************************************************************)

\* C2: an accepted input is a single fully parenthesized form (every '('
\* is closed by a later ')'); an input whose tokens run out before a
\* form's closing parenthesis is rejected.
C2_AcceptedIsClosed == Accepted => ClosedForm(Tokens)

(***************************************************************************)
(* C3                                                                      *)
(***************************************************************************)

\* tokens[pos..last] cut into its successive balanced groups (a string
\* atom, or a form from its '(' to the matching ')'); a stray ')' or a
\* form not closed by last leaves an empty group in the result
RECURSIVE Groups(_, _, _)
Groups(tokens, pos, last) ==
  IF pos > last THEN <<>>
  ELSE LET e == IF tokens[pos] = OpenParen THEN MatchClose(tokens, pos, 0)
                ELSE pos
       IN IF tokens[pos] = CloseParen \/ e = 0 \/ e > last
            THEN << <<>> >>
            ELSE <<SubSeq(tokens, pos, e)>> \o Groups(tokens, e + 1, last)

\* the sub-expressions written between the function name and the last token
Children(tokens) == Groups(tokens, 3, Len(tokens) - 1)

WellGrouped(gs) == \A i \in 1..Len(gs) : gs[i] # <<>>

\* the tokens are (w g1 .. gN) for balanced groups g1 .. gN, N >= 0
IsFormOf(tokens, w) ==
  /\ HeadIs(tokens, w)
  /\ Len(tokens) >= 3
  /\ tokens[Len(tokens)] = CloseParen
  /\ WellGrouped(Children(tokens))

\* a group parsed on its own, at the time the query was parsed
ChildParse(g) == parse_expr(g, 1, parsedAt)
ChildParses(g) ==
  ChildParse(g).st = "ok" /\ ChildParse(g).pos = Len(g) + 1

\* a sub-expression evaluated on its own, on the item and at the time
\* the query was evaluated
ChildValue(e) == evaluate_search_expr(e, items[evalItem], evalAt)

\* C3: (and e1 .. eN) and (or e1 .. eN) with N >= 1 sub-expressions that
\* each parse are accepted as And / Or of the N children in order and
\* evaluate to the conjunction / disjunction of the children's
\* evaluations (and abort only if a child's evaluation does); with no
\* sub-expression they fail with InvalidArgument.
C3_AndOrForms ==
  LET tokens == Tokens
      gs == Children(tokens)
      n == Len(gs)
      es == [i \in 1..n |-> ChildParse(gs[i]).expr]
      cv == [i \in 1..n |-> ChildValue(es[i])]
  IN \A w \in {W_and, W_or} :
       (Called /\ IsFormOf(tokens, w)) =>
         /\ n = 0 => (Rejected /\ parsed.err = "InvalidArgument")
         /\ (n >= 1 /\ \A i \in 1..n : ChildParses(gs[i])) =>
              /\ Accepted
              /\ parsed.expr = [op |-> IF w = W_and THEN "And" ELSE "Or",
                                s |-> <<>>, args |-> es]
              /\ Evaluated =>
                   /\ (\A i \in 1..n : cv[i].st = "ok") =>
                        evalOut = EvalOk(IF w = W_and
                                           THEN \A i \in 1..n : cv[i].v
                                           ELSE \E i \in 1..n : cv[i].v)
                   /\ evalOut.st = "panic" =>
                        \E i \in 1..n : cv[i].st = "panic"

\* an and form of two sub-expressions, the first true of the item and
\* the second false, has been evaluated
C3_Witness ==
  /\ Evaluated
  /\ IsFormOf(Tokens, W_and)
  /\ Len(Children(Tokens)) = 2
  /\ \A i \in 1..2 : ChildParses(Children(Tokens)[i])
  /\ ChildValue(ChildParse(Children(Tokens)[1]).expr) = EvalOk(TRUE)
  /\ ChildValue(ChildParse(Children(Tokens)[2]).expr) = EvalOk(FALSE)
  /\ evalOut = EvalOk(FALSE)

(***************************************************************************)
(* C4                                                                      *)
(***************************************************************************)

\* the end of the balanced form that starts at pos, 0 if none does
FormEnd(tokens, pos) ==
  IF pos <= Len(tokens) /\ tokens[pos] = OpenParen
    THEN MatchClose(tokens, pos, 0) ELSE 0

\* C4: a not form is accepted iff exactly one sub-expression that parses
\* follows the name and ')' follows it at once (and ends the input); when
\* one sub-expression parses and what follows is not ')', parsing fails
\* with InvalidArgument; an accepted form is Not of the child and
\* evaluates to the negation of the child's evaluation.
C4_NotForms ==
  LET tokens == Tokens
      e == FormEnd(tokens, 3)
      g == SubSeq(tokens, 3, e)
      one == e > 0 /\ ChildParses(g)
      closed == e + 1 <= Len(tokens) /\ tokens[e + 1] = CloseParen
      cv == ChildValue(ChildParse(g).expr)
  IN (Called /\ HeadIs(tokens, W_not)) =>
       /\ (one /\ ~closed) => (Rejected /\ parsed.err = "InvalidArgument")
       /\ Accepted <=> (one /\ closed /\ e + 1 = Len(tokens))
       /\ Accepted =>
            parsed.expr = [op |-> "Not", s |-> <<>>,
                           args |-> <<ChildParse(g).expr>>]
       /\ Evaluated =>
            /\ cv.st = "ok" => evalOut = EvalOk(~cv.v)
            /\ cv.st = "panic" => evalOut.st = "panic"

\* a not form whose child is false of the item has been evaluated
C4_Witness ==
  /\ Evaluated
  /\ HeadIs(Tokens, W_not)
  /\ ChildValue(ChildParse(SubSeq(Tokens, 3, Len(Tokens) - 1)).expr)
       = EvalOk(FALSE)
  /\ evalOut = EvalOk(TRUE)

(***************************************************************************)
(* C6                                                                      *)
(***************************************************************************)

\* the kinds stored in the Type nodes of an expression
RECURSIVE TypeKinds(_)
TypeKinds(e) ==
  IF e.op = "Type" THEN {e.s}
  ELSE UNION {TypeKinds(e.args[i]) : i \in 1..Len(e.args)}

\* the tokens are (name "arg")
IsLeafFormOf(tokens, w) ==
  /\ HeadIs(tokens, w)
  /\ Len(tokens) = 4
  /\ tokens[3].k = "String"
  /\ tokens[4] = CloseParen

\* C6: (type "arg") is accepted iff arg, lowercased, is image, video or
\* text, and otherwise fails with InvalidArgument; the accepted
\* expression is Type of the lowercased arg, the same expression with the
\* same evaluation on the item as the form written in lower case gives;
\* and every Type node of an accepted expression holds one of the three
\* kinds, so the evaluator's fallback arm is never taken.
C6_TypeForms ==
  LET tokens == Tokens
      kind == to_lowercase(tokens[3].s)
      lower == parse_search_expr(Join(LeafForm(W_type, kind)), parsedAt)
  IN /\ (Called /\ IsLeafFormOf(tokens, W_type)) =>
          /\ Accepted <=> kind \in {W_image, W_video, W_text}
          /\ ~Accepted => (Rejected /\ parsed.err = "InvalidArgument")
          /\ Accepted =>
               /\ parsed.expr = [op |-> "Type", s |-> kind, args |-> <<>>]
               /\ parsed.expr = lower.expr
          /\ Evaluated =>
               /\ evalOut.st = "ok"
               /\ evalOut = ChildValue(lower.expr)
     /\ Accepted => TypeKinds(parsed.expr) \subseteq {W_image, W_video, W_text}

\* (type "IMAGE") has been evaluated on an item that has an image file
C6_Witness ==
  /\ Evaluated
  /\ IsLeafFormOf(Tokens, W_type)
  /\ Tokens[3].s = S_IMAGE
  /\ \E i \in 1..Len(flat_files(items[evalItem])) :
       is_image(flat_files(items[evalItem])[i])
  /\ evalOut = EvalOk(TRUE)

(***************************************************************************)
(* C5                                                                      *)
(***************************************************************************)

\* the eleven leaf predicates
LeafWords ==
  {W_tag, W_type, W_site, W_fulltext, W_title, W_meta, W_desc, W_url,
   W_after, W_before, W_during}

\* the function name is followed by one string atom and then at once ')'
OneArgumentShape(tokens) ==
  /\ Len(tokens) >= 4
  /\ tokens[3].k = "String"
  /\ tokens[4] = CloseParen

\* C5 as stated: a leaf form is accepted only if its name is followed by
\* exactly one string atom and then immediately ')', and every other
\* shape, the input ending after the function name included, fails with
\* InvalidArgument.
C5_OtherShapesInvalidArgument ==
  \A w \in LeafWords :
    (Called /\ HeadIs(Tokens, w)) =>
      /\ Accepted => IsLeafFormOf(Tokens, w)
      /\ ~OneArgumentShape(Tokens) =>
           (Rejected /\ parsed.err = "InvalidArgument")

\* C5, amended: a leaf form is accepted only if its name is followed by
\* exactly one string atom and then immediately ')'; an input that ends
\* right after the function name fails with UnexpectedEnd, and every
\* other shape (a ')' or a nested form where the argument should be,
\* extra tokens before ')', the input ending after the argument) fails
\* with InvalidArgument.
C5_LeafShapes ==
  \A w \in LeafWords :
    (Called /\ HeadIs(Tokens, w)) =>
      /\ Accepted => IsLeafFormOf(Tokens, w)
      /\ Len(Tokens) = 2 => (Rejected /\ parsed.err = "UnexpectedEnd")
      /\ (Len(Tokens) > 2 /\ ~OneArgumentShape(Tokens)) =>
           (Rejected /\ parsed.err = "InvalidArgument")

\* an input that ends right after a leaf's function name has been
\* rejected with UnexpectedEnd
C5_Witness ==
  /\ Rejected
  /\ HeadIs(Tokens, W_tag)
  /\ Len(Tokens) = 2
  /\ parsed.err = "UnexpectedEnd"

(***************************************************************************)
(* C8, C9                                                                  *)
(***************************************************************************)

LogicalWords == {W_and, W_or, W_not}

\* the first position at which an expression is expected and no and, or
\* or not form opens: the first sub-expression of the forms opened so far
RECURSIVE ExpectedAt(_, _)
ExpectedAt(tokens, pos) ==
  IF /\ pos + 1 <= Len(tokens)
     /\ tokens[pos] = OpenParen
     /\ tokens[pos + 1].k = "String"
     /\ to_lowercase(tokens[pos + 1].s) \in LogicalWords
    THEN ExpectedAt(tokens, pos + 2)
    ELSE pos

\* the position after the complete forms, each parsing on its own, that
\* stand side by side from pos on
RECURSIVE SkipForms(_, _)
SkipForms(tokens, pos) ==
  IF FormEnd(tokens, pos) > 0
       /\ ChildParses(SubSeq(tokens, pos, FormEnd(tokens, pos)))
    THEN SkipForms(tokens, FormEnd(tokens, pos) + 1)
    ELSE pos

UnexpectedTokenReturned ==
  /\ Rejected
  /\ parsed.st = "err"
  /\ parsed.err = "UnexpectedToken"
  /\ parsed.expr = NoExpr

\* C8: a bare string atom where an expression is expected, a ')' where an
\* expression is expected, and any token left over after the first
\* complete top-level form each fail with UnexpectedToken, and no
\* expression is returned.
C8_UnexpectedToken ==
  LET tokens == Tokens
      p == ExpectedAt(tokens, 1)
      q == SkipForms(tokens, 3)
      e == FormEnd(tokens, 1)
  IN Called =>
       \* a string atom where the first expression of the innermost
       \* and, or or not form (or of the query) is expected
       /\ (p <= Len(tokens) /\ tokens[p].k = "String")
            => UnexpectedTokenReturned
       \* a string atom where a further sub-expression of an and or or
       \* form is expected
       /\ ((HeadIs(tokens, W_and) \/ HeadIs(tokens, W_or))
             /\ q <= Len(tokens) /\ tokens[q].k = "String")
            => UnexpectedTokenReturned
       \* a ')' where the query or the sub-expression of not is expected
       /\ (/\ p <= Len(tokens)
           /\ tokens[p] = CloseParen
           /\ p > 1 => to_lowercase(tokens[p - 1].s) = W_not)
            => UnexpectedTokenReturned
       \* tokens after the first complete top-level form
       /\ (e > 0 /\ e < Len(tokens) /\ ChildParses(SubSeq(tokens, 1, e)))
            => UnexpectedTokenReturned

\* a complete form followed by one more token has been rejected with
\* UnexpectedToken
C8_Witness ==
  /\ UnexpectedTokenReturned
  /\ FormEnd(Tokens, 1) = 4
  /\ Len(Tokens) = 5
  /\ ChildParses(SubSeq(Tokens, 1, 4))

\* C9: after '(' the next token must be a string atom naming the
\* function, a '(' or ')' there failing with UnexpectedToken; the name is
\* matched case-insensitively against the fourteen known names, and any
\* other name fails with InvalidFunction carrying the name as written.
C9_FunctionNames ==
  LET tokens == Tokens
      p == ExpectedAt(tokens, 1)
      lowered == [tokens EXCEPT ![2] = [@ EXCEPT !.s = to_lowercase(@)]]
  IN Called =>
       /\ (p + 1 <= Len(tokens) /\ tokens[p] = OpenParen) =>
            /\ tokens[p + 1].k # "String" => UnexpectedTokenReturned
            /\ (/\ tokens[p + 1].k = "String"
                /\ to_lowercase(tokens[p + 1].s) \notin KnownNames) =>
                 /\ Rejected
                 /\ parsed.err = "InvalidFunction"
                 /\ parsed.arg = tokens[p + 1].s
       \* no spelling of a known name is reported as unknown
       /\ parsed.err = "InvalidFunction" =>
            to_lowercase(parsed.arg) \notin KnownNames
       \* a known name in any case parses as its lower-case spelling
       /\ (\E w \in KnownNames : HeadIs(tokens, w)) =>
            /\ Accepted <=> ChildParses(lowered)
            /\ Accepted => parsed.expr = ChildParse(lowered).expr
            /\ ChildParse(lowered).st = "err" =>
                 (Rejected /\ parsed.err = ChildParse(lowered).err)

\* a form whose function name is written in upper case has been accepted
C9_Witness ==
  /\ Accepted
  /\ HeadIs(Tokens, W_tag)
  /\ Tokens[2].s = <<"T", "A", "G">>

(***************************************************************************)
(* C7, C10                                                                 *)
(***************************************************************************)

\* the time string of the leaf form in tokens, as parsed when the query
\* was parsed
ArgumentTime(tokens) == timestring_parse(tokens[3].s, parsedAt)

\* C7: after and before accept any time string that parses and fail with
\* InvalidTimestamp otherwise; during accepts only a time string that
\* parses to a range, fails with InvalidArgument for one that parses to a
\* single moment and with InvalidTimestamp for one that does not parse.
C7_TemporalForms ==
  LET tokens == Tokens IN
  /\ \A w \in {W_after, W_before} :
       (Called /\ IsLeafFormOf(tokens, w)) =>
         IF ArgumentTime(tokens).st = "ok"
           THEN Accepted
           ELSE Rejected /\ parsed.err = "InvalidTimestamp"
  /\ (Called /\ IsLeafFormOf(tokens, W_during)) =>
       IF ArgumentTime(tokens).st # "ok"
         THEN Rejected /\ parsed.err = "InvalidTimestamp"
       ELSE IF ArgumentTime(tokens).spec.kind = "Range"
         THEN Accepted
       ELSE Rejected /\ parsed.err = "InvalidArgument"

\* C10: a relative time string is resolved again when the expression is
\* evaluated, so a query (during "today") that was parsed on an earlier
\* day matches the items published on the day of the evaluation, in the
\* search timezone, and no others.
C10_TodayIsTheDayOfEvaluation ==
  LET tokens == Tokens IN
  (/\ Evaluated
   /\ IsLeafFormOf(tokens, W_during)
   /\ to_lowercase(trim(tokens[3].s)) = P_today
   /\ ToLocal(parsedAt).dayno < ToLocal(evalAt).dayno) =>
    evalOut = EvalOk(ToLocal(items[evalItem].source_published).dayno
                       = ToLocal(evalAt).dayno)

(***************************************************************************)
(* The time-string parser on its own: timestring::parse is given one time  *)
(* string while the clock reads now                                        *)
(***************************************************************************)

\* format!("{}", n) of a natural number
RECURSIVE Decimal(_)
Decimal(n) ==
  IF n < 10 THEN <<DigitChars[n + 1]>>
  ELSE Decimal(n \div 10) \o <<DigitChars[(n % 10) + 1]>>

\* format!("{:0w$}", n)
RECURSIVE ZeroPad(_, _)
ZeroPad(str, w) == IF Len(str) >= w THEN str ELSE ZeroPad(<<"0">> \o str, w)

\* the first letter in upper case
Capitalized(str) ==
  IF str = <<>> THEN str ELSE <<ToUpperChar(Head(str))>> \o Tail(str)

\* the ways a word is written: lower case, upper case, capitalized, and
\* with white space around it
Spellings(w) ==
  {w, Upper(w), Capitalized(w), <<" ">> \o w \o <<" ", " ">>}

\* clock readings: besides Nows, the hours around both daylight-saving
\* transitions of 2025, the ends of months and of years, and both ends of
\* a week
TimeNows ==
  Nows \cup
  { At(2025, 3, 9, 1, 30),     \* half an hour before daylight time starts
    At(2025, 3, 9, 23, 30),
    At(2025, 3, 15, 12, 0),    \* the Saturday of that week
    At(2025, 11, 2, 0, 30),    \* the 25-hour day, before the hour repeats
    At(2025, 11, 2, 23, 30),
    At(2025, 11, 3, 0, 30),
    At(2025, 11, 8, 12, 0),    \* the Saturday of that week
    At(2025, 1, 12, 0, 0),     \* a Sunday, at midnight
    At(2025, 1, 18, 23, 59),   \* a Saturday, a minute before midnight
    At(2025, 1, 1, 0, 0),
    At(2024, 12, 31, 23, 59),
    At(2025, 1, 31, 12, 0),
    At(2025, 5, 31, 12, 0),
    At(2025, 12, 15, 12, 0),
    At(2024, 2, 29, 23, 30) }

PeriodWords ==
  {P_today, P_yesterday, P_this_week, P_last_week, P_this_month,
   P_last_month, P_this_year, P_last_year}

PeriodInputs == UNION {Spellings(p) : p \in PeriodWords}

MonthInputs == UNION {Spellings(mn.w) : mn \in MonthNames}

\* "N unit ago" and "N units ago" for N in 0 .. MaxAgo, and "a unit ago"
MaxAgo == 14

AgoInput(count, unit, plural) ==
  count \o <<" ">> \o unit \o (IF plural THEN <<"s">> ELSE <<>>)
    \o <<" ">> \o AgoWord

AgoInputs ==
  {AgoInput(Decimal(n), u.w, pl) :
     n \in 0..MaxAgo, u \in UnitWords, pl \in BOOLEAN}
    \cup {AgoInput(<<"a">>, u.w, FALSE) : u \in UnitWords}
    \cup {Capitalized(AgoInput(<<"a">>, u.w, FALSE)) : u \in UnitWords}

\* strings of decimal digits: years, epoch milliseconds, and what is
\* neither
YearInputs == {Decimal(y) : y \in {2007, 2023, 2024, 2025, 2026}}

I64Overflow == I64MaxDigits \o <<"0">>
I64MaxPlusOne == SubSeq(I64MaxDigits, 1, 18) \o <<"8">>

IntegerInputs ==
  { <<"1","7","0","4","0","6","7","2","0","0","0","0","0">>,
    <<"1","2","3","4","5">>, <<"0","2","0","2","5">>,
    <<"0","0","0","0","0">>, <<"8","6","4","0","0","0","0","0">>,
    <<"8","6","3","9","9","9","9","9">>,
    <<"-","1","2","3","4">>, <<"+","1","2","3","4">>,
    <<"-","8","6","4","0","0","0","0","1">>,
    I64Overflow, I64MaxPlusOne,
    <<"1","2","3">>, <<"1","2","3","4","5","x">> }

\* calendar dates [y, m, d], and the ways each is written
Dates ==
  { [y |-> 2025, m |-> 1, d |-> 15], [y |-> 2025, m |-> 1, d |-> 5],
    [y |-> 2025, m |-> 3, d |-> 9], [y |-> 2025, m |-> 11, d |-> 2],
    [y |-> 2024, m |-> 2, d |-> 29], [y |-> 2025, m |-> 12, d |-> 31],
    [y |-> 2025, m |-> 9, d |-> 1], [y |-> 2025, m |-> 5, d |-> 22] }

AmericanForms(dt) ==
  { Decimal(dt.m) \o <<"/">> \o Decimal(dt.d) \o <<"/">> \o Decimal(dt.y),
    ZeroPad(Decimal(dt.m), 2) \o <<"/">> \o ZeroPad(Decimal(dt.d), 2)
      \o <<"/">> \o Decimal(dt.y) }

IsoForms(dt) ==
  { Decimal(dt.y) \o <<"-">> \o ZeroPad(Decimal(dt.m), 2) \o <<"-">>
      \o ZeroPad(Decimal(dt.d), 2) }

\* st, nd, rd, th as English writes them
OrdinalOf(d) ==
  IF d \in {11, 12, 13} THEN <<"t","h">>
  ELSE IF d % 10 = 1 THEN <<"s","t">>
  ELSE IF d % 10 = 2 THEN <<"n","d">>
  ELSE IF d % 10 = 3 THEN <<"r","d">>
  ELSE <<"t","h">>

HumanForms(dt) ==
  UNION {{ name \o <<" ">> \o Decimal(dt.d) \o ord \o comma \o <<" ">>
             \o Decimal(dt.y) :
           ord \in {<<>>, OrdinalOf(dt.d)}, comma \in {<<>>, <<",">>} } :
         name \in UNION {{mn.w, Upper(mn.w), Capitalized(mn.w)} :
                           mn \in {x \in MonthNames : x.num = dt.m}}}

DateForms(dt) == AmericanForms(dt) \cup IsoForms(dt) \cup HumanForms(dt)

DateInputs == UNION {DateForms(dt) : dt \in Dates}

\* what resembles a date and is none, and what resembles nothing
BadInputs ==
  { <<>>, <<" ">>, TS_not_a_date, TS_bad_american,
    <<"2","/","3","0","/","2","0","2","5">>,
    <<"2","/","2","9","/","2","0","2","5">>,
    <<"4","/","3","1","/","2","0","2","5">>,
    <<"0","/","1","0","/","2","0","2","5">>,
    <<"1","/","0","/","2","0","2","5">>,
    <<"1","/","3","2","/","2","0","2","5">>,
    <<"1","3","/","1","/","2","0","2","5">>,
    <<"1","/","1","5","/","2","5">>,
    <<"2","0","2","5","-","0","2","-","3","0">>,
    <<"F","e","b"," ","3","0",","," ","2","0","2","5">>,
    <<"t","o","d","a","y","s">>, <<"n","e","x","t"," ","w","e","e","k">>,
    <<"j","a","n","u">>, <<"2"," ","m","o","n","t","h">> }

\* counts around the widths of the integers that hold them: 10^8, 300000,
\* 10^9, 2^31, 3 * 10^9, 2^32 - 1, 2^32, 2^32 + 1, i64::MAX, i64::MAX + 1
BigCounts ==
  { <<"1","0","0","0","0","0","0","0","0">>,
    <<"3","0","0","0","0","0">>,
    <<"1","0","0","0","0","0","0","0","0","0">>,
    <<"2","1","4","7","4","8","3","6","4","8">>,
    <<"3","0","0","0","0","0","0","0","0","0">>,
    <<"4","2","9","4","9","6","7","2","9","5">>,
    <<"4","2","9","4","9","6","7","2","9","6">>,
    <<"4","2","9","4","9","6","7","2","9","7">>,
    I64MaxDigits, I64MaxPlusOne }

BigAgoInputs == {AgoInput(c, u.w, TRUE) : c \in BigCounts, u \in UnitWords}

TimeInputs ==
  PeriodInputs \cup MonthInputs \cup AgoInputs \cup YearInputs
    \cup IntegerInputs \cup DateInputs \cup BadInputs \cup {TS_rfc3339}
    \cup BigAgoInputs

\* timestring::parse(ts, now, SEARCH_TIMEZONE)
ResolveTime(ts) ==
  /\ timeInput' = ts
  /\ resolved' = timestring_parse(ts, now)
  /\ phase' = "resolved"
  /\ UNCHANGED watchVars
  /\ UNCHANGED <<items, now, input, parsed, parsedAt, evalItem, evalOut,
                 evalAt>>

InitTime == InitAt(TimeNows)

ResolveTimeString == phase = "idle" /\ \E ts \in TimeInputs : ResolveTime(ts)

NextTime == ResolveTimeString

SpecTime == InitTime /\ [][NextTime]_vars

\* timestring::parse has returned (or aborted) on timeInput at now
Resolved == phase = "resolved"
ResolvedOk == Resolved /\ resolved.st = "ok"
ResolvedErr == Resolved /\ resolved.st = "err"

(***************************************************************************)
(* C11                                                                     *)
(***************************************************************************)

\* the stored string of the temporal leaf, resolved when it was evaluated
SpecAtEvaluation == timestring_parse(parsed.expr.s, evalAt)

\* comparison of two epoch-millisecond values
NotBefore(a, b) == a.d > b.d \/ (a.d = b.d /\ a.ms >= b.ms)

EvaluatedTemporal(op) ==
  /\ Evaluated
  /\ parsed.expr.op = op
  /\ SpecAtEvaluation.st = "ok"

Published == items[evalItem].source_published

\* C11: with spec the TimeSpec that the stored string resolves to when the
\* leaf is evaluated, After is true iff the item's publish timestamp is at
\* or after the moment or the range's end, Before is true iff it is at or
\* before the moment or the range's start, and During is true iff it lies
\* between start and end, both included.
C11_TemporalComparisons ==
  /\ EvaluatedTemporal("After") =>
       /\ evalOut.st = "ok"
       /\ evalOut.v = NotBefore(Published, SpecAtEvaluation.spec.end)
  /\ EvaluatedTemporal("Before") =>
       /\ evalOut.st = "ok"
       /\ evalOut.v = NotBefore(SpecAtEvaluation.spec.start, Published)
  /\ EvaluatedTemporal("During") =>
       /\ evalOut.st = "ok"
       /\ evalOut.v = (/\ NotBefore(Published, SpecAtEvaluation.spec.start)
                       /\ NotBefore(SpecAtEvaluation.spec.end, Published))

\* an item published at the very end of a range satisfies After
C11_Witness ==
  /\ EvaluatedTemporal("After")
  /\ SpecAtEvaluation.spec.kind = "Range"
  /\ SpecAtEvaluation.spec.start # SpecAtEvaluation.spec.end
  /\ Published = SpecAtEvaluation.spec.end
  /\ evalOut.v

(***************************************************************************)
(* C12, C13                                                                *)
(***************************************************************************)

\* the named period the time string spells, as parse matches it
PeriodAsked == to_lowercase(trim(timeInput))

ResolvedPeriod(p) == ResolvedOk /\ PeriodAsked = p

\* the instant at which the tz-local day with the given day number begins
LocalMidnightOfDay(dayno) ==
  FromLocalSingle(CivilFromDays(dayno).y, CivilFromDays(dayno).m,
                  CivilFromDays(dayno).d, 0).t

\* the day number of the first day of the period, of the kind p asks for,
\* that follows the period in which the tz-local day l lies
NextPeriodDay(p, l) ==
  CASE p \in {P_today, P_yesterday} -> l.dayno + 1
    [] p \in {P_this_week, P_last_week} ->
         l.dayno - DaysFromSunday(l.dayno) + 7
    [] p \in {P_this_month, P_last_month} ->
         IF l.m = 12 THEN DaysFromCivil(l.y + 1, 1, 1)
         ELSE DaysFromCivil(l.y, l.m + 1, 1)
    [] p \in {P_this_year, P_last_year} -> DaysFromCivil(l.y + 1, 1, 1)

\* C12: for every now and every named period, the end of the returned
\* Range is one millisecond before the tz-local start of the next period,
\* days of 23 and of 25 hours included.
C12_PeriodEnds ==
  \A p \in PeriodWords :
    ResolvedPeriod(p) =>
      /\ resolved.spec.kind = "Range"
      /\ resolved.spec.end =
           TVSub(LocalMidnightOfDay(
                   NextPeriodDay(p, ToLocal(resolved.spec.start))),
                 OneMs)

\* the day number of the tz-local day on which period p begins, for a now
\* whose tz-local day is l
PeriodStartDay(p, l) ==
  CASE p = P_today -> l.dayno
    [] p = P_yesterday -> l.dayno - 1
    [] p = P_this_week -> l.dayno - DaysFromSunday(l.dayno)
    [] p = P_last_week -> l.dayno - DaysFromSunday(l.dayno) - 7
    [] p = P_this_month -> DaysFromCivil(l.y, l.m, 1)
    [] p = P_last_month ->
         IF l.m = 1 THEN DaysFromCivil(l.y - 1, 12, 1)
         ELSE DaysFromCivil(l.y, l.m - 1, 1)
    [] p = P_this_year -> DaysFromCivil(l.y, 1, 1)
    [] p = P_last_year -> DaysFromCivil(l.y - 1, 1, 1)

\* C13: for every now, the start of a named period's Range is the
\* tz-local midnight that begins the period relative to now's tz-local
\* date: yesterday starts at midnight of the day before now's local date,
\* this week at midnight of the Sunday on or before it, last week seven
\* days before that, also across a daylight-saving transition.
C13_PeriodStarts ==
  \A p \in PeriodWords :
    ResolvedPeriod(p) =>
      /\ resolved.spec.kind = "Range"
      /\ resolved.spec.start =
           LocalMidnightOfDay(PeriodStartDay(p, ToLocal(now)))

(***************************************************************************)
(* C14                                                                     *)
(***************************************************************************)

\* the year in which the month numbered num is looked for at now
YearOfMonth(num) ==
  IF num <= ToLocal(now).m THEN ToLocal(now).y ELSE ToLocal(now).y - 1

\* the day number of the first day of the month after month num of year y
FirstOfNextMonth(y, num) ==
  IF num = 12 THEN DaysFromCivil(y + 1, 1, 1)
  ELSE DaysFromCivil(y, num + 1, 1)

\* C14: a bare month name, full or abbreviated, in any case, resolves to
\* the Range of that whole month, in now's year when the month's number is
\* at most now's month and in the year before otherwise; the range runs
\* from tz-local midnight on the 1st to one millisecond before tz-local
\* midnight on the 1st of the following month.
C14_MonthNames ==
  \A mn \in MonthNames :
    (Resolved /\ to_lowercase(trim(timeInput)) = mn.w) =>
      /\ resolved.st = "ok"
      /\ resolved.spec.kind = "Range"
      /\ resolved.spec.start =
           LocalMidnightOfDay(DaysFromCivil(YearOfMonth(mn.num), mn.num, 1))
      /\ resolved.spec.end =
           TVSub(LocalMidnightOfDay(
                   FirstOfNextMonth(YearOfMonth(mn.num), mn.num)),
                 OneMs)

\* DEC asked in January: the December of the year before, which ends
\* with that year
C14_Witness ==
  /\ ResolvedOk
  /\ timeInput = <<"D","E","C">>
  /\ ToLocal(now).m = 1
  /\ ToLocal(resolved.spec.start).y = ToLocal(now).y - 1
  /\ ToLocal(resolved.spec.start).m = 12
  /\ ToLocal(resolved.spec.end).d = 31

(***************************************************************************)
(* C15                                                                     *)
(***************************************************************************)

\* the time string asks for count units ago, count written as "a" or in
\* decimal digits
AsksAgo(n, u) ==
  \/ \E pl \in BOOLEAN :
       to_lowercase(trim(timeInput)) = AgoInput(Decimal(n), u.w, pl)
  \/ n = 1 /\ to_lowercase(trim(timeInput)) = AgoInput(<<"a">>, u.w, FALSE)

\* n units of fixed length, as days and milliseconds
FixedLength(n, unit) ==
  CASE unit = "second" -> TVNorm(0, n * 1000)
    [] unit = "minute" -> TVNorm(0, n * 60 * 1000)
    [] unit = "hour" -> TVNorm(0, n * 60 * 60 * 1000)
    [] unit = "day" -> TV(n, 0)
    [] unit = "week" -> TV(7 * n, 0)

\* the count of months since year 0 of the tz-local month of t
MonthCount(t) == ToLocal(t).y * 12 + (ToLocal(t).m - 1)

\* C15: for every now and every N, "N months ago", "N years ago",
\* "a month ago" and "a year ago" resolve to a Moment whose tz-local
\* calendar fields are now's with the month or the year moved back by N,
\* the day of the month and the time of day unchanged; the other units
\* resolve to the Moment now minus the fixed-length duration.
C15_RelativeDurations ==
  \A n \in 0..MaxAgo, u \in UnitWords :
    (Resolved /\ AsksAgo(n, u)) =>
      /\ resolved.st = "ok"
      /\ resolved.spec.kind = "Moment"
      /\ u.name = "month" =>
           /\ MonthCount(resolved.spec.start) = MonthCount(now) - n
           /\ ToLocal(resolved.spec.start).d = ToLocal(now).d
           /\ ToLocal(resolved.spec.start).ms = ToLocal(now).ms
      /\ u.name = "year" =>
           /\ ToLocal(resolved.spec.start).y = ToLocal(now).y - n
           /\ ToLocal(resolved.spec.start).m = ToLocal(now).m
           /\ ToLocal(resolved.spec.start).d = ToLocal(now).d
           /\ ToLocal(resolved.spec.start).ms = ToLocal(now).ms
      /\ u.name \notin {"month", "year"} =>
           resolved.spec.start = TVSub(now, FixedLength(n, u.name))

(***************************************************************************)
(* C16                                                                     *)
(***************************************************************************)

\* the time string as parse reads it
Trimmed == trim(timeInput)

FourDigits == Len(Trimmed) = 4 /\ \A i \in 1..4 : IsDigit(Trimmed[i])

\* a decimal integer: an optional sign, then one digit or more
Signed == Trimmed # <<>> /\ Trimmed[1] \in {"+", "-"}
Magnitude == IF Signed THEN Tail(Trimmed) ELSE Trimmed
DecimalInteger ==
  Magnitude # <<>> /\ \A i \in 1..Len(Magnitude) : IsDigit(Magnitude[i])
LongInteger == DecimalInteger /\ Len(Trimmed) > 4

\* the value of a digit string in milliseconds, as days and milliseconds
\* of the day, read digit by digit from the left
RECURSIVE MillisOf(_, _)
MillisOf(digits, acc) ==
  IF digits = <<>> THEN acc
  ELSE MillisOf(Tail(digits),
                TVNorm(acc.d * 10, acc.ms * 10 + DigitVal(Head(digits))))

IntegerValue ==
  IF Signed /\ Trimmed[1] = "-"
    THEN TVSub(TV(0, 0), MillisOf(Magnitude, TV(0, 0)))
    ELSE MillisOf(Magnitude, TV(0, 0))

\* the digits, leading zeros apart, spell a number that is at most
\* i64::MAX = 9223372036854775807
SignificantDigits ==
  LET zeros == {i \in 0..Len(Magnitude) :
                  \A j \in 1..i : Magnitude[j] = "0"}
      lead == CHOOSE i \in zeros : \A j \in zeros : j <= i
  IN SubSeq(Magnitude, lead + 1, Len(Magnitude))

WithinI64 ==
  \/ Len(SignificantDigits) < 19
  \/ /\ Len(SignificantDigits) = 19
     /\ \/ SignificantDigits = I64MaxDigits
        \/ \E i \in 1..19 :
             /\ DigitVal(SignificantDigits[i]) < DigitVal(I64MaxDigits[i])
             /\ \A j \in 1..(i - 1) : SignificantDigits[j] = I64MaxDigits[j]

\* a string of four digits resolves to the whole year it spells
FourDigitsAreAYear ==
  (Resolved /\ FourDigits) =>
    /\ resolved.st = "ok"
    /\ resolved.spec.kind = "Range"
    /\ ToLocal(resolved.spec.start) =
         [y |-> MillisOf(Trimmed, TV(0, 0)).ms, m |-> 1, d |-> 1, ms |-> 0,
          dayno |-> DaysFromCivil(MillisOf(Trimmed, TV(0, 0)).ms, 1, 1)]
    /\ ToLocal(resolved.spec.end) =
         [y |-> MillisOf(Trimmed, TV(0, 0)).ms, m |-> 12, d |-> 31,
          ms |-> MsPerDay - 1,
          dayno |-> DaysFromCivil(MillisOf(Trimmed, TV(0, 0)).ms, 12, 31)]

LocalDay(dt) ==
  Range(LocalMidnightOfDay(DaysFromCivil(dt.y, dt.m, dt.d)),
        TVSub(LocalMidnightOfDay(DaysFromCivil(dt.y, dt.m, dt.d) + 1),
              OneMs))

\* C17: for every calendar date, the American form M/D/YYYY, the ISO form
\* YYYY-MM-DD and the human form "Mon D, YYYY" (with or without ordinal
\* suffix and comma, full or abbreviated month, in any case) resolve to
\* the same Range, the one that covers that tz-local day, whatever now is.
C17_DateFormsAgree ==
  \A dt \in Dates :
    (Resolved /\ timeInput \in DateForms(dt)) =>
      resolved = [st |-> "ok", spec |-> LocalDay(dt)]

(***************************************************************************)
(* C18                                                                     *)
(***************************************************************************)

\* the positions of the slashes of the time string
Slashes == {i \in 1..Len(Trimmed) : Trimmed[i] = "/"}
FirstSlash == CHOOSE i \in Slashes : \A j \in Slashes : i <= j
LastSlash == CHOOSE i \in Slashes : \A j \in Slashes : j <= i

\* one or two digits, a slash, one or two digits, a slash, four digits
AmericanShape ==
  /\ Cardinality(Slashes) = 2
  /\ FirstSlash \in {2, 3}
  /\ LastSlash - FirstSlash \in {2, 3}
  /\ Len(Trimmed) - LastSlash = 4
  /\ \A i \in (1..Len(Trimmed)) \ Slashes : IsDigit(Trimmed[i])

AmericanMonth == MillisOf(SubSeq(Trimmed, 1, FirstSlash - 1), TV(0, 0)).ms
AmericanDay ==
  MillisOf(SubSeq(Trimmed, FirstSlash + 1, LastSlash - 1), TV(0, 0)).ms
AmericanYear ==
  MillisOf(SubSeq(Trimmed, LastSlash + 1, Len(Trimmed)), TV(0, 0)).ms

MonthAndDayInRange == AmericanMonth \in 1..12 /\ AmericanDay \in 1..31

\* the month of that year has such a day
DayExists ==
  /\ MonthAndDayInRange
  /\ AmericanDay <=
       DaysFromCivil(IF AmericanMonth = 12 THEN AmericanYear + 1
                     ELSE AmericanYear,
                     IF AmericanMonth = 12 THEN 1 ELSE AmericanMonth + 1, 1)
         - DaysFromCivil(AmericanYear, AmericanMonth, 1)

\* what is no time string returns an error
BadInputsAreErrors == (Resolved /\ timeInput \in BadInputs) => ResolvedErr

ParsedAtTime(t) == parse_search_expr(input, t)

\* C19: parse_search_expr is a function of the query string alone: parsing
\* the query string again, at any time, yields a result structurally equal
\* to the one the first call returned.
C19_ParseIsPure ==
  Called => \A t \in Nows : ParsedAtTime(t) = parsed

(***************************************************************************)
(* Tag queries                                                             *)
(***************************************************************************)

S_FOO == <<"F","O","O">>
S_Fo == <<"F","o">>
S_oo == <<"o","o">>
S_fooo == <<"f","o","o","o">>
S_Cat == <<"C","a","t">>
S_ca == <<"c","a">>
S_X == <<"X">>

TagValues ==
  {S_Foo, S_foo, S_FOO, S_Fo, S_oo, S_fooo, S_cat, S_Cat, S_ca, S_x, S_X, S_y}

TagQueries ==
  {Join(LeafForm(f, v)) : f \in {W_tag, <<"T","a","g">>}, v \in TagValues}

InitTags == InitAt(Nows)

ParseTagQuery == phase = "idle" /\ \E q \in TagQueries : Parse(q)

NextTags == ParseTagQuery \/ EvaluateItem

SpecTags == InitTags /\ [][NextTags]_vars

(***************************************************************************)
(* C20                                                                     *)
(***************************************************************************)

\* one character, or the two cases of one letter
SameLetter(a, b) ==
  \/ a = b
  \/ \E i \in 1..26 : {a, b} = {UpperChars[i], LowerChars[i]}

\* the whole of s equals the whole of t, case ignored
EqualIgnoringCase(s, t) ==
  /\ Len(s) = Len(t)
  /\ \A i \in 1..Len(s) : SameLetter(s[i], t[i])

EvaluatedTag == Evaluated /\ parsed.expr.op = "Tag"

\* the values of the evaluated item's tags, a detailed tag's group left out
TagValuesOfItem ==
  {items[evalItem].tags[i].value : i \in 1..Len(items[evalItem].tags)}

\* the query is (tag "v") and the item has a tag whose value is exactly w
TagAskedOf(v, w) ==
  /\ Evaluated
  /\ input = Join(LeafForm(W_tag, v))
  /\ w \in TagValuesOfItem

\* C20: Tag(v) evaluates true iff the item has at least one tag whose
\* display value equals v ignoring case (the whole value, not a part of
\* it), a detailed tag contributing its value and never its group;
\* (tag "Foo") matches an item tagged "foo" and (tag "foo") an item
\* tagged "Foo".
C20_TagMatchesWholeValue ==
  /\ EvaluatedTag =>
       /\ evalOut.st = "ok"
       /\ evalOut.v <=>
            \E w \in TagValuesOfItem : EqualIgnoringCase(w, parsed.expr.s)
  /\ TagAskedOf(S_Foo, S_foo) => evalOut.v
  /\ TagAskedOf(S_foo, S_Foo) => evalOut.v

\* (tag "cat") is true of the item whose one tag has the group "Foo" and
\* the value "cat"
C20_Witness ==
  /\ EvaluatedTag
  /\ parsed.expr.s = S_cat
  /\ items[evalItem].tags = <<DetailedTag(S_Foo, S_cat)>>
  /\ evalOut.v

(***************************************************************************)
(* Content queries: text and metadata searches and file kinds, over items  *)
(* with nested metadata and nested files                                   *)
(***************************************************************************)

S_by == <<"b","y">>
S_n == <<"n">>
S_ok == <<"o","k">>
S_42 == <<"4","2">>
S_4 == <<"4">>
S_Dog == <<"D","o","g">>
S_dog == <<"d","o","g">>
S_Key == <<"K","e","y">>
S_key == <<"k","e","y">>
S_val == <<"v","a","l">>
S_true == <<"t","r","u","e">>
S_null == <<"n","u","l","l">>
S_org == <<"o","r","g">>
S_a_c == <<"a"," ","c">>
S_Hello == <<"H","e","l","l","o">>
S_ELL == <<"E","L","L">>
S_zzz == <<"z","z","z">>
S_CAT == <<"C","A","T">>

ContentItem(title, meta, files) ==
  [title |-> title,
   url |-> <<"h","t","t","p",":","/","/","e",".","o","r","g","/","a">>,
   description |-> [format |-> "Plaintext", value |-> <<"A"," ","C","a","t">>],
   meta |-> meta, tags |-> <<>>, files |-> files, site_slug |-> S_site,
   source_published |-> T_test]

ContentItems ==
  << \* a text file at the top level
     ContentItem(S_cat, JObject(<<[key |-> S_by, val |-> JString(S_Foo)]>>),
                 <<TextFile(S_x, S_foo)>>),
     \* nested metadata; a nested file under the key of a top-level file
     ContentItem(S_x,
                 JObject(<<[key |-> S_n, val |-> JNumber(S_42)],
                           [key |-> S_ok, val |-> JBool],
                           [key |-> S_y, val |-> JNull],
                           [key |-> S_x,
                            val |-> JArray(<<JString(S_Dog),
                                             JObject(<<[key |-> S_Key,
                                                        val |-> JString(S_val)]>>)>>)]>>),
                 <<File("Image", S_x, TRUE),
                   Intermediate(S_y, TRUE, <<File("Video", S_x, TRUE)>>)>>),
     \* a number alone; children that are not available
     ContentItem(S_y, JNumber(S_42),
                 <<Intermediate(S_x, FALSE, <<TextFile(S_y, S_dog)>>)>>),
     \* a boolean alone; a text file among available children
     ContentItem(S_y, JBool,
                 <<Intermediate(S_x, TRUE,
                                <<TextFile(S_y, S_Hello),
                                  File("Image", S_cat, TRUE)>>)>>),
     \* null; no files
     ContentItem(S_Dog, JNull, <<>>),
     \* an empty object; a video and an image, nothing nested
     ContentItem(S_y, JObject(<<>>),
                 <<File("Video", S_x, TRUE), File("Image", S_y, FALSE)>>),
     \* a nested image under the key of a top-level text file
     ContentItem(S_y, JNull,
                 <<TextFile(S_x, S_Hello),
                   Intermediate(S_y, TRUE, <<File("Image", S_x, TRUE)>>)>>) >>

SearchTexts ==
  {S_cat, S_CAT, S_foo, S_by, S_42, S_4, S_dog, S_key, S_val, S_true,
   S_null, S_org, S_a_c, S_ELL, S_zzz, S_x}

ContentQueries ==
  {Join(LeafForm(f, v)) :
     f \in {W_fulltext, W_title, W_url, W_desc, W_meta}, v \in SearchTexts}
  \cup {Join(LeafForm(W_type, k)) : k \in {W_image, W_video, W_text}}

InitContent ==
  /\ items = ContentItems
  /\ now = T_test
  /\ phase = "idle"
  /\ input = <<>>
  /\ parsed = ParseErr("", "", <<>>)
  /\ parsedAt = TV(0, 0)
  /\ evalItem = 0
  /\ evalOut = NotEvaluated
  /\ evalAt = TV(0, 0)
  /\ timeInput = <<>>
  /\ resolved = NotResolved
  /\ NoThreads

ParseContentQuery == phase = "idle" /\ \E q \in ContentQueries : Parse(q)

NextContent == ParseContentQuery \/ EvaluateItem

SpecContent == InitContent /\ [][NextContent]_vars

(***************************************************************************)
(* C21                                                                     *)
(***************************************************************************)

\* needle occurs in hay, case ignored
ContainsIgnoringCase(hay, needle) ==
  \E k \in 0..(Len(hay) - Len(needle)) :
    EqualIgnoringCase(SubSeq(hay, k + 1, k + Len(needle)), needle)

EvaluatedItem == items[evalItem]

\* what the leaf op with the evaluated expression's text gives on the
\* evaluated item
LeafOnItem(op) ==
  evaluate_search_expr(Leaf(op, parsed.expr.s), EvaluatedItem, evalAt).v

\* the files of the evaluated item after flattening: the children of each
\* intermediate file whose children are available, every other file itself
FlattenedFiles ==
  LET fs == EvaluatedItem.files
  IN {fs[i] : i \in {j \in 1..Len(fs) :
                       ~(fs[j].t = "Intermediate" /\ fs[j].downloaded)}}
     \cup UNION {{fs[i].nested[k] : k \in 1..Len(fs[i].nested)} :
                   i \in {j \in 1..Len(fs) :
                            fs[j].t = "Intermediate" /\ fs[j].downloaded}}

\* the flattened file set is the one CrawlItem::flat_files returns
SomeTextFileContains(v) ==
  LET ff == flat_files(EvaluatedItem)
  IN \E i \in 1..Len(ff) :
       ff[i].t = "Text" /\ ContainsIgnoringCase(ff[i].content, v)

EvaluatedLeaf(op) == Evaluated /\ parsed.expr.op = op

RECURSIVE LeavesOf(_, _)
LeavesOf(value, t) ==
  IF value.t \in {"Object", "Array"}
    THEN UNION {LeavesOf(value.items[i].val, t) : i \in 1..Len(value.items)}
    ELSE IF value.t = t THEN {value.s} ELSE {}

\* the keys of the objects at any depth of a metadata value
RECURSIVE KeysOf(_)
KeysOf(value) ==
  IF value.t \in {"Object", "Array"}
    THEN {value.items[i].key :
            i \in {j \in 1..Len(value.items) : value.t = "Object"}}
         \cup UNION {KeysOf(value.items[i].val) : i \in 1..Len(value.items)}
    ELSE {}

InStringOrKey(v) ==
  \E s \in LeavesOf(EvaluatedItem.meta, "String") \cup KeysOf(EvaluatedItem.meta) :
    ContainsIgnoringCase(s, v)

InNumber(v) ==
  \E s \in LeavesOf(EvaluatedItem.meta, "Number") : ContainsIgnoringCase(s, v)

\* C22 as claimed: Meta(v) evaluates true iff v is a case-insensitive
\* substring of some string-typed leaf or some object key at any depth of
\* the item's metadata; number, boolean and null leaves never produce a
\* match.
C22_StringsAndKeysOnly ==
  EvaluatedLeaf("Meta") =>
    /\ evalOut.st = "ok"
    /\ evalOut.v <=> InStringOrKey(parsed.expr.s)

\* C22: Meta(v) evaluates true iff v is a case-insensitive substring of
\* some string-typed leaf, of the rendering of some number leaf, or of some
\* object key, at any depth of the item's metadata; boolean and null
\* leaves never produce a match.
C22_MetaSearch ==
  EvaluatedLeaf("Meta") =>
    /\ evalOut.st = "ok"
    /\ evalOut.v <=> (InStringOrKey(parsed.expr.s) \/ InNumber(parsed.expr.s))

\* (meta "4") is true of the item whose metadata is the number 42
C22_Witness ==
  /\ EvaluatedLeaf("Meta")
  /\ parsed.expr.s = S_4
  /\ EvaluatedItem.meta = JNumber(S_42)
  /\ ~InStringOrKey(parsed.expr.s)
  /\ evalOut.v

(***************************************************************************)
(* C23                                                                     *)
(***************************************************************************)

\* the file kind a Type leaf's stored word names
KindOfWord(w) ==
  CASE w = W_image -> "Image"
    [] w = W_video -> "Video"
    [] w = W_text -> "Text"
    [] OTHER -> "none"

\* a file of the evaluated item itself, not nested in another
TopLevelFileOfKind(k) ==
  \E i \in 1..Len(EvaluatedItem.files) : EvaluatedItem.files[i].t = k

\* C23: Type(k) evaluates true iff at least one file of kind k is among the
\* item's files after flattening, every intermediate file whose children
\* are available being replaced by its children and every other file being
\* tested itself; no file is lost by flattening, so an item with a
\* top-level image file satisfies (type "image").
C23_TypeOverFlattenedFiles ==
  EvaluatedLeaf("Type") =>
    /\ evalOut.st = "ok"
    /\ evalOut.v <=>
         \E f \in FlattenedFiles : f.t = KindOfWord(parsed.expr.s)
    /\ (parsed.expr.s = W_image /\ TopLevelFileOfKind("Image")) => evalOut.v

(***************************************************************************)
(* The tokenizer on every short string over the characters it tells apart  *)
(***************************************************************************)

TokenChars == {"(", ")", "\"", "\\", " ", "a"}

\* the longest input of the tokenizer's own runs
MaxChars == 5

\* ( tag "say \"hi\"" )
SayHiQuery ==
  <<"(","t","a","g"," ","\"","s","a","y"," ","\\","\"","h","i","\\","\"","\"",")">>

TokenInputs ==
  UNION {[1..n -> TokenChars] : n \in 0..MaxChars} \cup {SayHiQuery}

InitTokens == InitAt({T_test})

ParseTokenInput == phase = "idle" /\ \E q \in TokenInputs : Parse(q)

NextTokens == ParseTokenInput

SpecTokens == InitTokens /\ [][NextTokens]_vars

\* what tokenize returns for the query given to parse_search_expr
Tokenized == tokenize(input)

(***************************************************************************)
(* C24                                                                     *)
(***************************************************************************)

\* the closing quote of the literal whose text begins at i; 0 when the
\* input ends first
RECURSIVE CloseOf(_, _)
CloseOf(s, i) ==
  IF i > Len(s) THEN 0
  ELSE IF s[i] = "\\" THEN CloseOf(s, i + 2)
  ELSE IF s[i] = "\"" THEN i
  ELSE CloseOf(s, i + 1)

\* the characters i .. j of a literal, each escaped character in the place
\* of its escape
RECURSIVE Unescaped(_, _, _)
Unescaped(s, i, j) ==
  IF i > j THEN <<>>
  ELSE IF s[i] = "\\" /\ i < j THEN <<s[i + 1]>> \o Unescaped(s, i + 2, j)
  ELSE <<s[i]>> \o Unescaped(s, i + 1, j)

BareChar(ch) == ~is_whitespace(ch) /\ ch \notin {"(", ")", "\""}

\* the last character of the bare word that begins at i
RECURSIVE WordEnd(_, _)
WordEnd(s, i) ==
  IF i < Len(s) /\ BareChar(s[i + 1]) THEN WordEnd(s, i + 1) ELSE i

\* the token stream of the characters from i on, read outside quotes:
\* parentheses, bare words, and one atom for each quoted literal
RECURSIVE LexFrom(_, _)
LexFrom(s, i) ==
  IF i > Len(s) THEN <<>>
  ELSE IF s[i] = "(" THEN <<OpenParen>> \o LexFrom(s, i + 1)
  ELSE IF s[i] = ")" THEN <<CloseParen>> \o LexFrom(s, i + 1)
  ELSE IF s[i] = "\""
    THEN IF CloseOf(s, i + 1) = 0 THEN <<>>
         ELSE <<StringTok(Unescaped(s, i + 1, CloseOf(s, i + 1) - 1))>>
              \o LexFrom(s, CloseOf(s, i + 1) + 1)
  ELSE IF BareChar(s[i])
    THEN <<StringTok(SubSeq(s, i, WordEnd(s, i)))>>
         \o LexFrom(s, WordEnd(s, i) + 1)
  ELSE LexFrom(s, i + 1)

\* C24: each quoted literal makes the tokenizer emit one string atom whose
\* text is exactly the characters between its opening and its closing
\* quote, every escaped character in the place of its escape; parentheses,
\* whitespace and escaped quotes inside the quotes are kept in the atom and
\* produce no structural token; ( tag "say \"hi\"" ) yields OpenParen, atom
\* tag, atom say "hi", CloseParen.
C24_QuotedLiterals ==
  (Called /\ Tokenized.ok) =>
    /\ Tokenized.tokens = LexFrom(input, 1)
    /\ input = SayHiQuery =>
         Tokenized.tokens =
           <<OpenParen, StringTok(W_tag),
             StringTok(<<"s","a","y"," ","\"","h","i","\"">>), CloseParen>>

(***************************************************************************)
(* C25                                                                     *)
(***************************************************************************)

\* reading from i outside quotes, the input ends inside a quoted string
RECURSIVE OpenAtEnd(_, _)
OpenAtEnd(s, i) ==
  IF i > Len(s) THEN FALSE
  ELSE IF s[i] = "\""
    THEN IF CloseOf(s, i + 1) = 0 THEN TRUE
         ELSE OpenAtEnd(s, CloseOf(s, i + 1) + 1)
  ELSE OpenAtEnd(s, i + 1)

HasQuote(s) == \E i \in 1..Len(s) : s[i] = "\""

\* an atom with nothing in it but whitespace
BlankAtom(t) == t.k = "String" /\ \A i \in 1..Len(t.s) : is_whitespace(t.s[i])

LastToken == Tokenized.tokens[Len(Tokenized.tokens)]

\* C25: tokenize fails iff the input ends while a quoted string is still
\* open (a pending escape inside the quotes included), and the error is
\* then UnexpectedEnd; on every other input it succeeds, emits no token for
\* whitespace, and flushes a bare word left in the buffer at the end of the
\* input as a final string atom.
C25_FailsOnlyOnOpenQuote ==
  Called =>
    /\ ~Tokenized.ok <=> OpenAtEnd(input, 1)
    /\ ~Tokenized.ok => Tokenized.err = "UnexpectedEnd"
    /\ (Tokenized.ok /\ ~HasQuote(input)) =>
         /\ Tokenized.tokens = LexFrom(input, 1)
         /\ \A i \in 1..Len(Tokenized.tokens) : ~BlankAtom(Tokenized.tokens[i])
    /\ (Tokenized.ok /\ input # <<>> /\ BareChar(input[Len(input)])) =>
         /\ Tokenized.tokens # <<>>
         /\ LastToken.k = "String"
         /\ LastToken.s # <<>>
         /\ LastToken.s[Len(LastToken.s)] = input[Len(input)]

\* the input ends on a pending escape inside an open quoted string
C25_Witness ==
  /\ Called
  /\ input = <<"a", " ", "\"", "a", "\\">>
  /\ OpenAtEnd(input, 1)
  /\ ~Tokenized.ok
  /\ Tokenized.err = "UnexpectedEnd"
  /\ parsed.st = "err"

(***************************************************************************)
(* C26                                                                     *)
(***************************************************************************)

ResolvedRange == ResolvedOk /\ resolved.spec.kind = "Range"

\* C26: every Range that timestring::parse returns, for every input
\* string, now and strategy, has start <= end.
C26_RangesAreOrdered ==
  ResolvedRange => NotBefore(resolved.spec.end, resolved.spec.start)

\* the Range of the day on which daylight time ends: it starts before it
\* ends
C26_Witness ==
  /\ ResolvedRange
  /\ timeInput = <<"1","1","/","2","/","2","0","2","5">>
  /\ resolved.spec.start # resolved.spec.end
  /\ NotBefore(resolved.spec.end, resolved.spec.start)

(***************************************************************************)
(* The WorkDir behind its lock: the watcher thread and the request         *)
(* handlers                                                                *)
(***************************************************************************)

\* the modification times of crawled.json the crawler reaches
MaxModified == 3

Readers == work_dir.readers

\* RwLock::read is granted now: no writer holds the lock (none ever holds
\* it across a step of another thread), and no writer waits for it where
\* the build lets waiting writers go first
ReadGranted == ~(build.writerPreferring /\ work_dir.writerWaiting)

InitWatch ==
  /\ items = Items
  /\ now = T_test
  /\ phase = "idle"
  /\ input = <<>>
  /\ parsed = ParseErr("", "", <<>>)
  /\ parsedAt = TV(0, 0)
  /\ evalItem = 0
  /\ evalOut = NotEvaluated
  /\ evalAt = TV(0, 0)
  /\ timeInput = <<>>
  /\ resolved = NotResolved
  /\ crawledModified = 1
  /\ work_dir = WorkDirLoadedAt(1)
  /\ watcher = WatcherAsleep
  /\ handlers = [h \in Handlers |-> "idle"]
  /\ build \in Builds

\* the crawler rewrites crawled.json
CrawledWritten ==
  /\ crawledModified < MaxModified
  /\ crawledModified' = crawledModified + 1
  /\ UNCHANGED <<work_dir, watcher, handlers, build>>
  /\ UNCHANGED searchVars

\* check_for_updates, after the sleep: self.work_dir.read().unwrap() and
\* the read of last_seen_modified; the guard lives to the end of the call
WatcherReads ==
  /\ watcher.pc = "sleep"
  /\ ReadGranted
  /\ work_dir' = [work_dir EXCEPT !.readers = @ \cup {"watcher"}]
  /\ watcher' = [pc |-> "reading",
                 previous |-> work_dir.data.last_seen_modified,
                 replacement |-> 0]
  /\ UNCHANGED <<crawledModified, handlers, build>>
  /\ UNCHANGED searchVars

\* the metadata of crawled.json and the comparison; with nothing newer the
\* call returns and drops its guard
WatcherCompares ==
  /\ watcher.pc = "reading"
  /\ IF crawledModified > watcher.previous
       THEN /\ watcher' = [watcher EXCEPT !.pc = "noticed"]
            /\ UNCHANGED work_dir
       ELSE /\ watcher' = [watcher EXCEPT !.pc = "sleep"]
            /\ work_dir' = [work_dir EXCEPT !.readers = @ \ {"watcher"}]
  /\ UNCHANGED <<crawledModified, handlers, build>>
  /\ UNCHANGED searchVars

\* WorkDir::new(path): the replacement, read from the files as they are
WatcherLoads ==
  /\ watcher.pc = "noticed"
  /\ watcher' = [watcher EXCEPT !.pc = "write",
                                !.replacement = crawledModified]
  /\ UNCHANGED <<crawledModified, work_dir, handlers, build>>
  /\ UNCHANGED searchVars

\* self.work_dir.write().unwrap() and what follows it.  The lock is
\* granted when no read guard is left; then the fields are replaced and the
\* call returns, the guards dropped.  Called on the thread that holds a
\* read guard, write() panics or blocks, as the build has it; the panic
\* unwinds the thread and drops its guard.
WatcherWrites ==
  /\ \/ watcher.pc = "write"
     \/ watcher.pc = "blocked" /\ Readers = {}
  /\ IF Readers = {}
       THEN /\ work_dir' =
                 [data |-> [last_seen_modified |-> watcher.replacement,
                            crawled |-> watcher.replacement],
                  readers |-> {}, writerWaiting |-> FALSE]
            /\ watcher' = [watcher EXCEPT !.pc = "sleep"]
       ELSE IF "watcher" \in Readers /\ build.selfWritePanics
         THEN /\ work_dir' = [work_dir EXCEPT !.readers = @ \ {"watcher"}]
              /\ watcher' = [watcher EXCEPT !.pc = "panicked"]
         ELSE /\ work_dir' = [work_dir EXCEPT !.writerWaiting = TRUE]
              /\ watcher' = [watcher EXCEPT !.pc = "blocked"]
  /\ UNCHANGED <<crawledModified, handlers, build>>
  /\ UNCHANGED searchVars

\* a request arrives: SiteSource::all_items calls workdir.work_dir.read()
HandlerRequests(h) ==
  /\ handlers[h] = "idle"
  /\ handlers' = [handlers EXCEPT ![h] = "waiting"]
  /\ UNCHANGED <<crawledModified, work_dir, watcher, build>>
  /\ UNCHANGED searchVars

\* the read lock is granted
HandlerReads(h) ==
  /\ handlers[h] = "waiting"
  /\ ReadGranted
  /\ handlers' = [handlers EXCEPT ![h] = "reading"]
  /\ work_dir' = [work_dir EXCEPT !.readers = @ \cup {h}]
  /\ UNCHANGED <<crawledModified, watcher, build>>
  /\ UNCHANGED searchVars

\* the items are cloned and the guard is dropped
HandlerReturns(h) ==
  /\ handlers[h] = "reading"
  /\ handlers' = [handlers EXCEPT ![h] = "idle"]
  /\ work_dir' = [work_dir EXCEPT !.readers = @ \ {h}]
  /\ UNCHANGED <<crawledModified, watcher, build>>
  /\ UNCHANGED searchVars

HandlerRequest == \E h \in Handlers : HandlerRequests(h)
HandlerRead == \E h \in Handlers : HandlerReads(h)
HandlerReturn == \E h \in Handlers : HandlerReturns(h)

NextWatch ==
  \/ CrawledWritten
  \/ WatcherReads
  \/ WatcherCompares
  \/ WatcherLoads
  \/ WatcherWrites
  \/ HandlerRequest
  \/ HandlerRead
  \/ HandlerReturn

SpecWatch == InitWatch /\ [][NextWatch]_vars

\* every thread that can run does run; nothing makes the crawler write or
\* a request arrive
SpecWatchFair ==
  /\ SpecWatch
  /\ WF_vars(WatcherReads)
  /\ WF_vars(WatcherCompares)
  /\ WF_vars(WatcherLoads)
  /\ WF_vars(WatcherWrites)
  /\ \A h \in Handlers : WF_vars(HandlerReads(h)) /\ WF_vars(HandlerReturns(h))

(***************************************************************************)
(* C27                                                                     *)
(***************************************************************************)

\* check_for_updates has seen a modification time newer than the one stored
Noticed == watcher.pc = "noticed"

\* check_for_updates has returned: the stored fields are newer than the
\* ones it read and the watcher holds no lock
ReplacedAndReturned ==
  /\ watcher.pc = "sleep"
  /\ work_dir.data.last_seen_modified > watcher.previous
  /\ work_dir.data.crawled > watcher.previous
  /\ "watcher" \notin Readers

\* C27: whenever check_for_updates observes a modification time of
\* crawled.json newer than last_seen_modified, it acquires the write lock,
\* replaces the fields and returns holding no lock; it never blocks for
\* ever on the lock it holds for reading, and the read-lock requests of
\* the request handlers are eventually granted.
C27_WatcherUpdates ==
  /\ Noticed ~> ReplacedAndReturned
  /\ \A h \in Handlers : (handlers[h] = "waiting") ~> (handlers[h] = "reading")

(***************************************************************************)
(* C28                                                                     *)
(***************************************************************************)

\* the time string as the relative-duration pattern sees it
Lowered == to_lowercase(trim(timeInput))

\* the digits the time string begins with
RECURSIVE LeadingDigits(_)
LeadingDigits(s) ==
  IF s # <<>> /\ IsDigit(Head(s)) THEN <<Head(s)>> \o LeadingDigits(Tail(s))
  ELSE <<>>

AgoCount == LeadingDigits(Lowered)

\* the time string is "N unit ago" or "N units ago" for the unit u
AsksCountAgo(u) ==
  /\ AgoCount # <<>>
  /\ \E pl \in BOOLEAN : Lowered = AgoInput(AgoCount, u.w, pl)

\* the count without its leading zeros
RECURSIVE Significant(_)
Significant(s) ==
  IF s # <<>> /\ Head(s) = "0" THEN Significant(Tail(s)) ELSE s

\* the value of a count below 10^9
SmallCount(s) ==
  LET a == MillisOf(s, TV(0, 0)) IN a.d * MsPerDay + a.ms

\* a span of days and milliseconds taken k times
Times(a, k) == TVNorm(a.d * k, a.ms * k)

\* the count followed by zeros, read as milliseconds
CountTimesTenTo(s, zeros) ==
  MillisOf(s \o [i \in 1..zeros |-> "0"], TV(0, 0))

\* the Moment is now minus exactly N units.  No date of chrono lies more
\* than 10^13 seconds, 10^12 minutes, 10^10 hours, 10^9 days, 10^8 weeks,
\* 10^9 months or 10^9 years before now: a Moment returned for such a
\* count is not now minus N units.
ExactlyAgo(u) ==
  LET z == Significant(AgoCount)
      t == resolved.spec.start
  IN /\ resolved.spec.kind = "Moment"
     /\ CASE u.name = "second" ->
               /\ Len(z) <= 13
               /\ t = TVSub(now, CountTimesTenTo(z, 3))
          [] u.name = "minute" ->
               /\ Len(z) <= 12
               /\ t = TVSub(now, Times(CountTimesTenTo(z, 4), 6))
          [] u.name = "hour" ->
               /\ Len(z) <= 10
               /\ t = TVSub(now, Times(Times(CountTimesTenTo(z, 5), 6), 6))
          [] u.name = "day" ->
               /\ Len(z) <= 9
               /\ t = TVSub(now, TV(SmallCount(z), 0))
          [] u.name = "week" ->
               /\ Len(z) <= 8
               /\ t = TVSub(now, TV(7 * SmallCount(z), 0))
          [] u.name = "month" ->
               /\ Len(z) <= 9
               /\ MonthCount(t) = MonthCount(now) - SmallCount(z)
               /\ ToLocal(t).d = ToLocal(now).d
               /\ ToLocal(t).ms = ToLocal(now).ms
          [] u.name = "year" ->
               /\ Len(z) <= 9
               /\ ToLocal(t).y = ToLocal(now).y - SmallCount(z)
               /\ ToLocal(t).m = ToLocal(now).m
               /\ ToLocal(t).d = ToLocal(now).d
               /\ ToLocal(t).ms = ToLocal(now).ms

\* C28: for every "N unit ago", whatever the magnitude of N,
\* timestring::parse returns a value or an error and does not abort, and a
\* Moment it returns is now minus exactly N units: N is not truncated or
\* wrapped and no duration or date arithmetic overflows.
C28_NoAbortNoWrap ==
  \A u \in UnitWords :
    (Resolved /\ AsksCountAgo(u)) =>
      /\ resolved.st \in {"ok", "err"}
      /\ resolved.st = "ok" => ExactlyAgo(u)

(***************************************************************************)
(* C29                                                                     *)
(***************************************************************************)

AcceptedDuring == Accepted /\ parsed.expr.op = "During"

\* the stored time string resolved when the clock reads t
StoredAt(t) == timestring_parse(parsed.expr.s, t)

\* C29: for every query accepted as During(raw) at parse time, resolving
\* raw again at any later now yields a Range, never a Moment and never an
\* error.
C29_DuringStaysARange ==
  /\ AcceptedDuring =>
       \A t \in Nows :
         NotBefore(t, parsedAt) =>
           /\ StoredAt(t).st = "ok"
           /\ StoredAt(t).spec.kind = "Range"
  /\ (Evaluated /\ parsed.expr.op = "During") => evalOut.st = "ok"

\* During(raw) accepted on one day and evaluated on a later one
C29_Witness ==
  /\ Evaluated
  /\ parsed.expr.op = "During"
  /\ ToLocal(evalAt).y > ToLocal(parsedAt).y
  /\ SpecAtEvaluation.st = "ok"
  /\ SpecAtEvaluation.spec.kind = "Range"
  /\ evalOut.st = "ok"

(***************************************************************************)
(* C30                                                                     *)
(***************************************************************************)

\* the temporal leaf op over the evaluated expression's time string, on the
\* evaluated item and at the evaluation's now
TemporalOnItem(op) ==
  evaluate_search_expr(Leaf(op, parsed.expr.s), items[evalItem], evalAt)

\* a temporal leaf was evaluated and its time string was a Range then
EvaluatedOverRange ==
  /\ Evaluated
  /\ parsed.expr.op \in {"After", "Before", "During"}
  /\ SpecAtEvaluation.st = "ok"
  /\ SpecAtEvaluation.spec.kind = "Range"

StrictlyInside ==
  /\ Published # SpecAtEvaluation.spec.start
  /\ Published # SpecAtEvaluation.spec.end
  /\ NotBefore(Published, SpecAtEvaluation.spec.start)
  /\ NotBefore(SpecAtEvaluation.spec.end, Published)

\* C30: for every time string R that resolves to a Range at a now and every
\* publish timestamp, at least one of (before R), (during R), (after R) is
\* true at that now; an item published strictly between the start and the
\* end of the range satisfies (during R) and neither of the others.
C30_BeforeDuringAfter ==
  EvaluatedOverRange =>
    /\ evalOut = TemporalOnItem(parsed.expr.op)
    /\ \A op \in {"Before", "During", "After"} : TemporalOnItem(op).st = "ok"
    /\ \E op \in {"Before", "During", "After"} : TemporalOnItem(op).v
    /\ StrictlyInside =>
         /\ TemporalOnItem("During").v
         /\ ~TemporalOnItem("Before").v
         /\ ~TemporalOnItem("After").v

\* (after R) is false of an item published inside the range R
C30_Witness ==
  /\ EvaluatedOverRange
  /\ parsed.expr.op = "After"
  /\ StrictlyInside
  /\ ~evalOut.v
  /\ TemporalOnItem("During").v

====
